---- MODULE Spec2Model ----
(***************************************************************************)
(* Card-payment network simulation: issuer authorization, acquirer         *)
(* settlement, capture, and the account ledger they rest on.               *)
(*                                                                         *)
(* Money held in a NUMERIC(x, 2) column (balances, amounts, limits, the    *)
(* per-transaction fee) is counted in cents.  percentage_fee, a            *)
(* NUMERIC(4, 3) column, is counted in thousandths, and a computed fee or  *)
(* net amount, which is not a column, in 1/100000 of a cent, so that       *)
(*   per_transaction_fee + amount * percentage_fee / 100                   *)
(* is computed without loss; it is rounded to cents where the code stores  *)
(* it in a column.                                                         *)
(*                                                                         *)
(* Spec      one network worker runs purchase attempts stage by stage      *)
(*           while the account operations (debit, credit, status change)   *)
(*           of the banking service run between its stages.                *)
(* SpecConc  two workers run debit_account on the same account statement   *)
(*           by statement (read account, read daily total, write).         *)
(* SpecAuth  one caller invokes authorize_transaction once, on an account, *)
(*           a ledger and an issuer configuration drawn from bounded sets. *)
(* SpecLedger one caller invokes debit_account, credit_account and         *)
(*           update_account_status one after the other.                    *)
(***************************************************************************)
EXTENDS Integers, Sequences, FiniteSets, TLC

\* ------------------------------------------------------------------ bounds
MaxAmount == 2          \* purchase / ledger amounts are 100 * (1..MaxAmount) cents
MaxOps == 1             \* account operations run beside the network worker
MaxCalls == 3           \* SpecLedger: account operations the caller makes in a row

\* ------------------------------------------------------- program constants
UniformVolumeMax == 1000000   \* random.uniform(0, 10000) currency units, in cents
FraudHighAmountRate == 100    \* random.random() < 0.1, per mille
FraudVelocityRate == 20       \* random.random() < 0.02, per mille
AcquirerRateBoost == 2        \* float(success_rate) + 0.02, in percent
AcquirerRateCap == 99         \* min(0.99, ...), in percent
FeeScale == 100000            \* a cent, in the unit of computed fees and net amounts

\* -------------------------------------------------------------- value sets
AmountChoices == {100 * k : k \in 1..MaxAmount}
Currencies == {"USD", "EUR"}
AccountIds == {"acc1"}
UnknownAccountId == "acc_missing"
PaymentIds == {"p1"}
MerchantId == "m1"
Workers == {"w1", "w2"}
Null == "NULL"
\* random.random() in [0, 1), per mille: a low, a high and a very high draw
Rolls == {0, 985, 995}
\* random.uniform(0, 10000): the two ends of the range
VolumeDraws == {0, UniformVolumeMax}
Stamped == "set"
\* the fallback of process_payment declines when random.random() <= 0.1
FallbackDeclinePerMille == 100

\* AccountStatus
AccountStatuses == {"active", "frozen", "closed", "suspended"}

\* TransactionType: the debit-type entries counted by _get_daily_debit_total
DebitTypes_with_refunds == {"debit", "payment_debit", "transfer_out", "refund_credit"}

DebitTypes == {"debit", "payment_debit", "transfer_out"}

\* NetworkTransaction row that does not exist
NoTx == [payment_id |-> Null]

\* IssuerBankService.response_codes / AcquirerBankService.response_codes
issuer_response_codes ==
    [approved |-> "00", insufficient_funds |-> "51", invalid_account |-> "14",
     expired_card |-> "54", fraud_suspected |-> "59", daily_limit_exceeded |-> "61",
     system_error |-> "96", timeout |-> "68"]

acquirer_response_codes ==
    [approved |-> "00", invalid_merchant |-> "03", merchant_limit_exceeded |-> "61",
     system_error |-> "96", processing_error |-> "91"]

VARIABLES
    accounts,     \* bank_accounts table: account id -> row
    ledger,       \* account_transactions table, in insertion order
    banks,        \* bank_configurations table, in row order
    merchants,    \* merchant_accounts table, in row order
    nt,           \* network_transactions table: attempt -> row or NoTx
    att,          \* the network worker's attempts: position and local variables
    ops,          \* number of account operations run so far
    dw,           \* SpecConc: each worker's position inside debit_account
    hist,         \* the caller's calls and their results, in order (SpecPay: the last one)
    payments,     \* payments table: payment id -> row
    refunds,      \* refunds table, in insertion order
    transactions  \* transactions table (charges and refunds), in insertion order

vars == <<accounts, ledger, banks, merchants, nt, att, ops, dw, hist,
          payments, refunds, transactions>>

Max0(x) == IF x > 0 THEN x ELSE 0
MinOf(S) == CHOOSE x \in S : \A y \in S : x <= y

RECURSIVE SumSeq(_, _)
SumSeq(f, n) == IF n = 0 THEN 0 ELSE f[n] + SumSeq(f, n - 1)

\* ------------------------------------------------------------ BankAccount
effective_balance(account) == account.current_balance + account.overdraft_limit

is_active(account) == account.status = "active"

has_sufficient_balance_unchecked(account, amount) == TRUE

has_sufficient_balance(account, amount) == effective_balance(account) >= amount

\* --------------------------------------------------------- BankingService
\* Sum of today's debit-type entries of the account (every entry of the model
\* is made on the same day).
_get_daily_debit_total(led, account_id) ==
    SumSeq([i \in 1..Len(led) |->
              IF led[i].account_id = account_id /\ led[i].transaction_type \in DebitTypes
              THEN led[i].amount ELSE 0],
           Len(led))

AccountTransaction_swapped(account_id, type, amount, before, after, reference_id, reference_type) ==
    [account_id |-> account_id, transaction_type |-> type, amount |-> amount,
     balance_before |-> after, balance_after |-> before,
     reference_id |-> reference_id, reference_type |-> reference_type]

AccountTransaction(account_id, type, amount, before, after, reference_id, reference_type) ==
    [account_id |-> account_id, transaction_type |-> type, amount |-> amount,
     balance_before |-> before, balance_after |-> after,
     reference_id |-> reference_id, reference_type |-> reference_type]

\* datetime.utcnow(), as a logical clock: one tick per committed ledger entry,
\* so a new stamp is later than every stamp already stored.
utcnow(led) == Len(led) + 1

\* debit_account, the rejecting returns: a failure result, nothing written.
debit_rejected_stamped(accts, led, account_id, error) ==
    [success |-> FALSE, error |-> error,
     accounts |-> IF account_id \in DOMAIN accts
                  THEN [accts EXCEPT ![account_id].last_transaction_at = utcnow(led)]
                  ELSE accts,
     ledger |-> led]

debit_rejected(accts, led, account_id, error) ==
    [success |-> FALSE, error |-> error, accounts |-> accts, ledger |-> led]

\* debit_account: the result, and the tables after it.
debit_account(accts, led, account_id, amount, reference_id, reference_type) ==
    IF account_id \notin DOMAIN accts
    THEN debit_rejected(accts, led, account_id, "Account not found")
    ELSE LET account == accts[account_id] IN
      IF ~is_active(account)
      THEN debit_rejected(accts, led, account_id, "Account is not active")
      ELSE IF ~has_sufficient_balance(account, amount)
      THEN debit_rejected(accts, led, account_id, "Insufficient funds")
      ELSE IF _get_daily_debit_total(led, account_id) + amount > account.daily_limit
      THEN debit_rejected(accts, led, account_id, "Daily limit exceeded")
      ELSE LET balance_before == account.current_balance
               after == balance_before - amount
           IN [success |-> TRUE, error |-> Null,
               accounts |-> [accts EXCEPT ![account_id].current_balance = after,
                                          ![account_id].available_balance = after,
                                          ![account_id].last_transaction_at = utcnow(led)],
               ledger |-> Append(led, AccountTransaction(account_id, "payment_debit", amount,
                                        balance_before, after, reference_id, reference_type))]

\* credit_account
credit_account_active_only(accts, led, account_id, amount, reference_id, reference_type) ==
    IF account_id \notin DOMAIN accts
    THEN [success |-> FALSE, error |-> "Account not found", accounts |-> accts, ledger |-> led]
    ELSE IF ~is_active(accts[account_id])
    THEN [success |-> FALSE, error |-> "Account is not active", accounts |-> accts, ledger |-> led]
    ELSE LET balance_before == accts[account_id].current_balance
             after == balance_before + amount
         IN [success |-> TRUE, error |-> Null,
             accounts |-> [accts EXCEPT ![account_id].current_balance = after,
                                        ![account_id].available_balance = after,
                                        ![account_id].last_transaction_at = utcnow(led)],
             ledger |-> Append(led, AccountTransaction(account_id, "refund_credit", amount,
                                      balance_before, after, reference_id, reference_type))]

credit_account_stale_entry(accts, led, account_id, amount, reference_id, reference_type) ==
    IF account_id \notin DOMAIN accts
    THEN [success |-> FALSE, error |-> "Account not found", accounts |-> accts, ledger |-> led]
    ELSE LET balance_before == accts[account_id].current_balance
             after == balance_before + amount
         IN [success |-> TRUE, error |-> Null,
             accounts |-> [accts EXCEPT ![account_id].current_balance = after,
                                        ![account_id].available_balance = after,
                                        ![account_id].last_transaction_at = utcnow(led)],
             ledger |-> Append(led, AccountTransaction(account_id, "refund_credit", amount,
                                      balance_before, balance_before,
                                      reference_id, reference_type))]

credit_account(accts, led, account_id, amount, reference_id, reference_type) ==
    IF account_id \notin DOMAIN accts
    THEN [success |-> FALSE, error |-> "Account not found", accounts |-> accts, ledger |-> led]
    ELSE LET balance_before == accts[account_id].current_balance
             after == balance_before + amount
         IN [success |-> TRUE, error |-> Null,
             accounts |-> [accts EXCEPT ![account_id].current_balance = after,
                                        ![account_id].available_balance = after,
                                        ![account_id].last_transaction_at = utcnow(led)],
             ledger |-> Append(led, AccountTransaction(account_id, "refund_credit", amount,
                                      balance_before, after, reference_id, reference_type))]

\* update_account_status
update_account_status(accts, led, account_id, status) ==
    IF account_id \notin DOMAIN accts
    THEN [success |-> FALSE, error |-> "Account not found", accounts |-> accts, ledger |-> led]
    ELSE LET balance == accts[account_id].current_balance IN
         [success |-> TRUE, error |-> Null,
          accounts |-> [accts EXCEPT ![account_id].status = status],
          ledger |-> Append(led, AccountTransaction(account_id,
                                   IF status = "frozen" THEN "debit" ELSE "credit",
                                   0, balance, balance, Null, "status_change"))]

\* ------------------------------------------------------ BankConfiguration
BankConfiguration(code, type, active, base_ms, rate, single_limit, fee, pct, currencies, fraud) ==
    [bank_code |-> code, bank_type |-> type, is_active |-> active,
     base_response_time_ms |-> base_ms, success_rate |-> rate,
     single_transaction_limit |-> single_limit,
     per_transaction_fee |-> fee, percentage_fee |-> pct,
     supported_currencies |-> currencies, fraud_detection_level |-> fraud]

NoBank == [bank_code |-> Null]

\* get_bank_configuration (issuer and acquirer service): filter_by(bank_code, is_active).first()
get_bank_configuration(cfgs, bank_code) ==
    LET hits == {i \in 1..Len(cfgs) : cfgs[i].bank_code = bank_code /\ cfgs[i].is_active}
    IN IF hits = {} THEN NoBank ELSE cfgs[MinOf(hits)]

\* ------------------------------------------------- PaymentNetworkService
get_available_acquirers_any_type(cfgs, currency) ==
    SelectSeq(cfgs, LAMBDA b : b.is_active /\ currency \in b.supported_currencies)

get_available_acquirers(cfgs, currency) ==
    SelectSeq(cfgs, LAMBDA b : /\ b.bank_type \in {"acquirer", "dual"}
                               /\ b.is_active
                               /\ currency \in b.supported_currencies)

_calculate_acquirer_score_slow_first(acquirer, amount) ==
    LET total_fee == acquirer.per_transaction_fee * FeeScale + amount * acquirer.percentage_fee
        cost_score == Max0(1000 * FeeScale - total_fee)
        success_score == acquirer.success_rate * 10 * FeeScale
        speed_score == acquirer.base_response_time_ms * FeeScale
    IN cost_score * 3 + success_score * 4 + speed_score * 3

\* The weighted score, times 10, in the unit of computed fees:
\*   cost_score = max(0, 10 - fee), success_score = rate * 10,
\*   speed_score = max(0, 10 - base_ms / 100), weights 0.3 / 0.4 / 0.3.
_calculate_acquirer_score(acquirer, amount) ==
    LET total_fee == acquirer.per_transaction_fee * FeeScale + amount * acquirer.percentage_fee
        cost_score == Max0(1000 * FeeScale - total_fee)
        success_score == acquirer.success_rate * 10 * FeeScale
        speed_score == Max0(1000 - acquirer.base_response_time_ms) * FeeScale
    IN cost_score * 3 + success_score * 4 + speed_score * 3

\* sort(key=score, reverse=True) is stable: the first row with the highest score.
select_optimal_acquirer(cfgs, amount, currency) ==
    LET available == get_available_acquirers(cfgs, currency)
        best == {i \in 1..Len(available) :
                   \A j \in 1..Len(available) :
                      _calculate_acquirer_score(available[i], amount)
                        >= _calculate_acquirer_score(available[j], amount)}
    IN IF Len(available) = 0 THEN NoBank ELSE available[MinOf(best)]

\* ---------------------------------------------------- AcquirerBankService
MerchantAccount(merchant_id, acquirer, currency, status, limit) ==
    [merchant_id |-> merchant_id, acquirer_bank_code |-> acquirer, currency |-> currency,
     status |-> status, current_balance |-> 0, daily_volume_limit |-> limit,
     updated_at |-> Null]

get_merchant_account_no_fallback(mrows, merchant_id, currency, preferred_acquirer) ==
    LET query == {i \in 1..Len(mrows) : /\ mrows[i].merchant_id = merchant_id
                                        /\ mrows[i].currency = currency
                                        /\ mrows[i].status = "active"}
        preferred == {i \in query : mrows[i].acquirer_bank_code = preferred_acquirer}
    IN IF preferred_acquirer = Null /\ query # {} THEN MinOf(query)
       ELSE IF preferred # {} THEN MinOf(preferred)
       ELSE 0

\* get_merchant_account: the row number of the account found, 0 for None.
get_merchant_account(mrows, merchant_id, currency, preferred_acquirer) ==
    LET query == {i \in 1..Len(mrows) : /\ mrows[i].merchant_id = merchant_id
                                        /\ mrows[i].currency = currency
                                        /\ mrows[i].status = "active"}
        preferred == {i \in query : mrows[i].acquirer_bank_code = preferred_acquirer}
    IN IF preferred_acquirer # Null /\ preferred # {} THEN MinOf(preferred)
       ELSE IF query # {} THEN MinOf(query)
       ELSE 0

NoFeeInfo == [total_fee |-> Null, net_amount |-> Null]

\* calculate_fees: Decimal arithmetic, exact; the float() of each value of the
\* dict and the Decimal(str(...)) of line 135 give the same decimal back, the
\* values having far fewer than 15 significant digits.
calculate_fees(amount, bank_config) ==
    LET percentage_fee == amount * bank_config.percentage_fee
        total_fee == bank_config.per_transaction_fee * FeeScale + percentage_fee
    IN [total_fee |-> total_fee, net_amount |-> amount * FeeScale - total_fee]

\* A value stored in a NUMERIC(x, 2) column: rounded to the cent, half away
\* from zero.
numeric_2(x) ==
    IF x >= 0 THEN (x + FeeScale \div 2) \div FeeScale
    ELSE 0 - ((0 - x + FeeScale \div 2) \div FeeScale)

\* process_settlement, lines 135-139: the net amount is added to the merchant
\* row's balance, the row is stamped and committed.
credit_merchant_gross(mrows, row, amount, fee_info) ==
    [mrows EXCEPT ![row].current_balance = @ + amount, ![row].updated_at = Stamped]

credit_merchant(mrows, row, amount, fee_info) ==
    [mrows EXCEPT ![row].current_balance = numeric_2(@ * FeeScale + fee_info.net_amount),
                  ![row].updated_at = Stamped]

SettleDecline_success_flag(mrows, code, reason) ==
    [success |-> TRUE, response_code |-> code, decline_reason |-> reason,
     fee_info |-> NoFeeInfo, merchants |-> mrows]

SettleDecline(mrows, code, reason) ==
    [success |-> FALSE, response_code |-> code, decline_reason |-> reason,
     fee_info |-> NoFeeInfo, merchants |-> mrows]

\* process_settlement: the result, and the merchant table after it.
\* daily_volume and roll are the two random draws of the call.
process_settlement_credit_first(mrows, cfgs, merchant_id, amount, currency, acquirer_bank_code, daily_volume, roll) ==
    LET bank_config == get_bank_configuration(cfgs, acquirer_bank_code)
        row == get_merchant_account(mrows, merchant_id, currency, acquirer_bank_code)
    IN IF bank_config = NoBank
       THEN SettleDecline(mrows, acquirer_response_codes.system_error,
                          "Acquirer bank configuration not found")
       ELSE IF row = 0
       THEN SettleDecline(mrows, acquirer_response_codes.invalid_merchant,
                          "Merchant account not found")
       ELSE LET fee_info == calculate_fees(amount, bank_config)
                credited == credit_merchant(mrows, row, amount, fee_info)
            IN IF daily_volume + amount > mrows[row].daily_volume_limit
               THEN SettleDecline(credited, acquirer_response_codes.merchant_limit_exceeded,
                                  "Daily volume limit exceeded")
               ELSE IF roll > 10 * bank_config.success_rate + 10 * AcquirerRateBoost
                       \/ roll > 10 * AcquirerRateCap
               THEN SettleDecline(credited, acquirer_response_codes.processing_error,
                                  "Acquirer processing error")
               ELSE [success |-> TRUE, response_code |-> acquirer_response_codes.approved,
                     decline_reason |-> Null, fee_info |-> fee_info, merchants |-> credited]

process_settlement(mrows, cfgs, merchant_id, amount, currency, acquirer_bank_code, daily_volume, roll) ==
    LET bank_config == get_bank_configuration(cfgs, acquirer_bank_code)
        row == get_merchant_account(mrows, merchant_id, currency, acquirer_bank_code)
    IN IF bank_config = NoBank
       THEN SettleDecline(mrows, acquirer_response_codes.system_error,
                          "Acquirer bank configuration not found")
       ELSE IF row = 0
       THEN SettleDecline(mrows, acquirer_response_codes.invalid_merchant,
                          "Merchant account not found")
       ELSE IF daily_volume + amount > mrows[row].daily_volume_limit
       THEN SettleDecline(mrows, acquirer_response_codes.merchant_limit_exceeded,
                          "Daily volume limit exceeded")
       ELSE LET fee_info == calculate_fees(amount, bank_config) IN
            \* random.random() > min(0.99, success_rate + 0.02)
            IF roll > 10 * bank_config.success_rate + 10 * AcquirerRateBoost
               \/ roll > 10 * AcquirerRateCap
            THEN SettleDecline(mrows, acquirer_response_codes.processing_error,
                               "Acquirer processing error")
            ELSE [success |-> TRUE, response_code |-> acquirer_response_codes.approved,
                  decline_reason |-> Null, fee_info |-> fee_info,
                  merchants |-> credit_merchant(mrows, row, amount, fee_info)]

\* ------------------------------------------------------ IssuerBankService
\* check_fraud_indicators: the reason of the flag, Null when not flagged.
check_fraud_indicators_every_level(bank_account, amount, bank_config, roll1, roll2) ==
    IF 10 * amount > 8 * bank_account.daily_limit /\ roll1 < FraudHighAmountRate
    THEN "High amount transaction"
    ELSE IF bank_config.fraud_detection_level = "high" /\ roll2 < FraudVelocityRate
    THEN "Velocity check failed"
    ELSE Null

check_fraud_indicators(bank_account, amount, bank_config, roll1, roll2) ==
    IF bank_config.fraud_detection_level = "low" THEN Null
    ELSE IF 10 * amount > 8 * bank_account.daily_limit /\ roll1 < FraudHighAmountRate
    THEN "High amount transaction"
    ELSE IF bank_config.fraud_detection_level = "high" /\ roll2 < FraudVelocityRate
    THEN "Velocity check failed"
    ELSE Null

\* The draws check_fraud_indicators can make for the request, as pairs
\* <<roll1, roll2>>: line 71 draws only for an amount above 80% of the daily
\* limit at a level other than low, line 77 only at level high; a draw that is
\* not made is written 0 and is not looked at.
fraud_draws(accts, cfgs, bank_account_id, amount) ==
    LET known == bank_account_id \in DOMAIN accts
        bank_config == IF known THEN get_bank_configuration(cfgs, accts[bank_account_id].bank_code)
                       ELSE NoBank
        level == IF bank_config = NoBank THEN "low" ELSE bank_config.fraud_detection_level
        high_amount == known /\ 10 * amount > 8 * accts[bank_account_id].daily_limit
    IN (IF level # "low" /\ high_amount THEN Rolls ELSE {0})
       \X (IF level = "high" THEN Rolls ELSE {0})

\* A declining return: the result, the checks evaluated before it (the failing
\* one last), and the tables as the call leaves them.
AuthDecline(accts, led, code, reason, evaluated) ==
    [success |-> FALSE, response_code |-> code, decline_reason |-> reason,
     authorization_code |-> Null, evaluated |-> evaluated,
     accounts |-> accts, ledger |-> led]

\* authorize_transaction, lines 190-199: the approving return.
approve_with_hold(accts, led, bank_account_id, amount) ==
    [success |-> TRUE, response_code |-> issuer_response_codes.approved,
     decline_reason |-> Null, authorization_code |-> "AUTH",
     evaluated |-> <<"account", "bank_config", "status", "currency", "single_limit",
                     "balance", "daily_limit", "fraud", "success_rate">>,
     accounts |-> [accts EXCEPT ![bank_account_id].available_balance = @ - amount],
     ledger |-> led]

approve(accts, led, bank_account_id, amount) ==
    [success |-> TRUE, response_code |-> issuer_response_codes.approved,
     decline_reason |-> Null, authorization_code |-> "AUTH",
     evaluated |-> <<"account", "bank_config", "status", "currency", "single_limit",
                     "balance", "daily_limit", "fraud", "success_rate">>,
     accounts |-> accts, ledger |-> led]

\* authorize_transaction, line 110: bank_account.status != AccountStatus.ACTIVE
status_not_active_frozen_only(bank_account) == bank_account.status = "frozen"

status_not_active(bank_account) == bank_account.status # "active"

\* authorize_transaction, line 131: amount > bank_config.single_transaction_limit
exceeds_single_limit_inclusive(amount, bank_config) ==
    amount >= bank_config.single_transaction_limit

exceeds_single_limit(amount, bank_config) == amount > bank_config.single_transaction_limit

\* authorize_transaction, on the tables as the caller's session sees them.
\* roll1, roll2 are the fraud draws and roll3 the success-rate draw.
authorize_transaction_funds_first(accts, led, cfgs, bank_account_id, amount, roll1, roll2, roll3) ==
    IF bank_account_id \notin DOMAIN accts
    THEN AuthDecline(accts, led, issuer_response_codes.invalid_account, "Account not found",
                     <<"account">>)
    ELSE LET bank_account == accts[bank_account_id]
             bank_config == get_bank_configuration(cfgs, bank_account.bank_code)
         IN
      IF bank_config = NoBank
      THEN AuthDecline(accts, led, issuer_response_codes.system_error,
                       "Bank configuration not found",
                       <<"account", "bank_config">>)
      ELSE IF status_not_active(bank_account)
      THEN AuthDecline(accts, led, issuer_response_codes.invalid_account, "Account status",
                       <<"account", "bank_config", "status">>)
      ELSE IF bank_account.currency \notin bank_config.supported_currencies
      THEN AuthDecline(accts, led, issuer_response_codes.system_error, "Currency not supported",
                       <<"account", "bank_config", "status", "currency">>)
      ELSE IF ~has_sufficient_balance(bank_account, amount)
      THEN AuthDecline(accts, led, issuer_response_codes.insufficient_funds, "Insufficient funds",
                       <<"account", "bank_config", "status", "currency", "balance">>)
      ELSE IF exceeds_single_limit(amount, bank_config)
      THEN AuthDecline(accts, led, issuer_response_codes.daily_limit_exceeded,
                       "Amount exceeds single transaction limit",
                       <<"account", "bank_config", "status", "currency", "balance",
                         "single_limit">>)
      ELSE IF _get_daily_debit_total(led, bank_account_id) + amount > bank_account.daily_limit
      THEN AuthDecline(accts, led, issuer_response_codes.daily_limit_exceeded,
                       "Daily limit exceeded",
                       <<"account", "bank_config", "status", "currency", "single_limit",
                         "balance", "daily_limit">>)
      ELSE IF check_fraud_indicators(bank_account, amount, bank_config, roll1, roll2) # Null
      THEN AuthDecline(accts, led, issuer_response_codes.fraud_suspected,
                       check_fraud_indicators(bank_account, amount, bank_config, roll1, roll2),
                       <<"account", "bank_config", "status", "currency", "single_limit",
                         "balance", "daily_limit", "fraud">>)
      ELSE IF roll3 > 10 * bank_config.success_rate
      THEN AuthDecline(accts, led, issuer_response_codes.system_error,
                       "System temporarily unavailable",
                       <<"account", "bank_config", "status", "currency", "single_limit",
                         "balance", "daily_limit", "fraud", "success_rate">>)
      ELSE approve(accts, led, bank_account_id, amount)

authorize_transaction(accts, led, cfgs, bank_account_id, amount, roll1, roll2, roll3) ==
    IF bank_account_id \notin DOMAIN accts
    THEN AuthDecline(accts, led, issuer_response_codes.invalid_account, "Account not found",
                     <<"account">>)
    ELSE LET bank_account == accts[bank_account_id]
             bank_config == get_bank_configuration(cfgs, bank_account.bank_code)
         IN
      IF bank_config = NoBank
      THEN AuthDecline(accts, led, issuer_response_codes.system_error,
                       "Bank configuration not found",
                       <<"account", "bank_config">>)
      ELSE IF status_not_active(bank_account)
      THEN AuthDecline(accts, led, issuer_response_codes.invalid_account, "Account status",
                       <<"account", "bank_config", "status">>)
      ELSE IF bank_account.currency \notin bank_config.supported_currencies
      THEN AuthDecline(accts, led, issuer_response_codes.system_error, "Currency not supported",
                       <<"account", "bank_config", "status", "currency">>)
      ELSE IF exceeds_single_limit(amount, bank_config)
      THEN AuthDecline(accts, led, issuer_response_codes.daily_limit_exceeded,
                       "Amount exceeds single transaction limit",
                       <<"account", "bank_config", "status", "currency", "single_limit">>)
      ELSE IF ~has_sufficient_balance(bank_account, amount)
      THEN AuthDecline(accts, led, issuer_response_codes.insufficient_funds, "Insufficient funds",
                       <<"account", "bank_config", "status", "currency", "single_limit",
                         "balance">>)
      ELSE IF _get_daily_debit_total(led, bank_account_id) + amount > bank_account.daily_limit
      THEN AuthDecline(accts, led, issuer_response_codes.daily_limit_exceeded,
                       "Daily limit exceeded",
                       <<"account", "bank_config", "status", "currency", "single_limit",
                         "balance", "daily_limit">>)
      ELSE IF check_fraud_indicators(bank_account, amount, bank_config, roll1, roll2) # Null
      THEN AuthDecline(accts, led, issuer_response_codes.fraud_suspected,
                       check_fraud_indicators(bank_account, amount, bank_config, roll1, roll2),
                       <<"account", "bank_config", "status", "currency", "single_limit",
                         "balance", "daily_limit", "fraud">>)
      ELSE IF roll3 > 10 * bank_config.success_rate
      THEN AuthDecline(accts, led, issuer_response_codes.system_error,
                       "System temporarily unavailable",
                       <<"account", "bank_config", "status", "currency", "single_limit",
                         "balance", "daily_limit", "fraud", "success_rate">>)
      ELSE approve(accts, led, bank_account_id, amount)

\* capture_authorization: debit_account with the payment as reference.
capture_authorization(accts, led, bank_account_id, amount, payment_id) ==
    debit_account(accts, led, bank_account_id, amount, payment_id, "payment_capture")

\* ------------------------------------------------------ NetworkTransaction
\* The row as the constructor and the column defaults make it.
NetworkTransaction(payment_id, issuer_bank_code, acquirer_bank_code, amount, currency) ==
    [payment_id |-> payment_id, issuer_bank_code |-> issuer_bank_code,
     acquirer_bank_code |-> acquirer_bank_code, amount |-> amount, currency |-> currency,
     issuer_response_time_ms |-> Null, acquirer_response_time_ms |-> Null,
     total_processing_time_ms |-> Null,
     issuer_status |-> "pending", acquirer_status |-> "pending", final_status |-> "pending",
     issuer_response_code |-> Null, acquirer_response_code |-> Null, decline_reason |-> Null,
     issuer_processed_at |-> Null, acquirer_processed_at |-> Null, completed_at |-> Null,
     committed |-> FALSE]

\* process_two_party_transaction, lines 148-150
issuer_response_update(tx, issuer_result) ==
    [tx EXCEPT !.issuer_response_time_ms = Stamped,
               !.issuer_response_code = issuer_result.response_code,
               !.issuer_processed_at = Stamped]

\* lines 153-158
issuer_declined_update_as_failed(tx, issuer_result) ==
    [tx EXCEPT !.issuer_status = "declined", !.final_status = "failed",
               !.decline_reason = issuer_result.decline_reason,
               !.completed_at = Stamped, !.committed = TRUE]

issuer_declined_update(tx, issuer_result) ==
    [tx EXCEPT !.issuer_status = "declined", !.final_status = "declined",
               !.decline_reason = issuer_result.decline_reason,
               !.completed_at = Stamped, !.committed = TRUE]

\* lines 199-203
no_merchant_account_update(tx) ==
    [tx EXCEPT !.final_status = "failed", !.decline_reason = "No merchant account found",
               !.completed_at = Stamped, !.committed = TRUE]

\* lines 228-234; the commit inside an approved process_settlement persists the row
acquirer_response_update(tx, acquirer_result) ==
    [tx EXCEPT !.acquirer_response_time_ms = Stamped,
               !.acquirer_response_code = acquirer_result.response_code,
               !.acquirer_processed_at = Stamped,
               !.total_processing_time_ms = Stamped,
               !.committed = @ \/ acquirer_result.success]

\* lines 237-242
acquirer_declined_update(tx, acquirer_result) ==
    [tx EXCEPT !.acquirer_status = "declined", !.final_status = "failed",
               !.decline_reason = acquirer_result.decline_reason,
               !.completed_at = Stamped, !.committed = TRUE]

\* lines 270-272
capture_failed_update_as_settled(tx) ==
    [tx EXCEPT !.acquirer_status = "settled", !.final_status = "settled",
               !.completed_at = Stamped, !.committed = TRUE]

capture_failed_update(tx) ==
    [tx EXCEPT !.final_status = "failed", !.decline_reason = "Capture failed",
               !.committed = TRUE]

\* lines 289-293
success_update(tx) ==
    [tx EXCEPT !.acquirer_status = "settled", !.final_status = "settled",
               !.completed_at = Stamped, !.committed = TRUE]

\* ------------------------------------------------------------- the attempt
NoData == [payment_id |-> Null]
NoSession == [accounts |-> Null]
NoResult == [success |-> FALSE]
Absent == "absent"

PaymentOrder == <<"p1">>

IdleAttempt ==
    [pc |-> "idle", payment_data |-> NoData, session |-> NoSession,
     issuer_bank_code |-> Null, acquirer_bank_code |-> Null,
     issuer_result |-> NoResult, acquirer_result |-> NoResult,
     calls |-> <<>>, result |-> NoResult]

\* The dict returned to the caller: success, error, response_code (Absent when the
\* dict has no such key) and transaction_details['acquirer_bank'] (Null when
\* transaction_details is None).
Result(success, error, response_code, acquirer_bank) ==
    [success |-> success, error |-> error, response_code |-> response_code,
     acquirer_bank |-> acquirer_bank]

\* The attempt returns: no statement of it runs afterwards.
Finish_falls_through(a, result) ==
    [a EXCEPT !.pc = IF a.pc = "settle" THEN "capture" ELSE "done",
              !.session = NoSession, !.result = result]

Finish(a, result) == [a EXCEPT !.pc = "done", !.session = NoSession, !.result = result]

\* --------------------------------------------------------------------- Init
InitAccounts ==
    {[id \in AccountIds |->
        [status |-> "active", current_balance |-> b, available_balance |-> b,
         overdraft_limit |-> o, daily_limit |-> d, currency |-> "USD", bank_code |-> "ISS",
         last_transaction_at |-> 0]] :
     b \in {100, 300}, o \in {0, 100}, d \in {100, 300}}

InitBanks ==
    {<<BankConfiguration("ISS", "issuer", TRUE, 300, 97, 150, 25, 2000, {"USD", "EUR"}, "medium"),
       BankConfiguration("ACQA", "acquirer", a, 150, 99, 50000, 15, 1000, {"USD", "EUR"}, "low"),
       BankConfiguration("ACQB", "acquirer", TRUE, 180, 99, 40000, 18, 2000, {"USD"}, "low")>> :
     a \in BOOLEAN}

InitMerchants ==
    {<<MerchantAccount(MerchantId, "ACQA", "USD", sa, 5000000),
       MerchantAccount(MerchantId, "ACQB", "USD", sb, 500000)>> :
     sa \in {"active", "closed"}, sb \in {"active", "closed"}}

IdleWorker == [pc |-> "idle", amount |-> 0, account |-> NoData, daily_total |-> 0, result |-> NoResult]

Init ==
    /\ accounts \in InitAccounts
    /\ ledger = <<>>
    /\ banks \in InitBanks
    /\ merchants \in InitMerchants
    /\ nt = [p \in PaymentIds |-> NoTx]
    /\ att = [p \in PaymentIds |-> IdleAttempt]
    /\ ops = 0
    /\ dw = [w \in Workers |-> IdleWorker]
    /\ hist = <<>>
    /\ payments = <<>>
    /\ refunds = <<>>
    /\ transactions = <<>>

\* ------------------------------------- process_two_party_transaction, staged
\* Lines 83-132.  A request with a missing or unparsable field raises before any
\* query (lines 84-88) and is answered by the except clause (lines 313-320).
Start(p) ==
    /\ att[p].pc = "idle"
    /\ \E i \in 1..Len(PaymentOrder) :
          /\ PaymentOrder[i] = p
          /\ \A j \in 1..Len(PaymentOrder) :
                /\ j < i => att[PaymentOrder[j]].pc = "done"
                /\ j > i => att[PaymentOrder[j]].pc = "idle"
    /\ \E amount \in AmountChoices, currency \in Currencies,
          bank_account_id \in AccountIds \cup {UnknownAccountId}, malformed \in BOOLEAN :
          LET payment_data == [payment_id |-> p, amount |-> amount, currency |-> currency,
                               bank_account_id |-> bank_account_id, merchant_id |-> MerchantId]
              optimal_acquirer == select_optimal_acquirer(banks, amount, currency)
          IN
          IF malformed
          THEN /\ att' = [att EXCEPT ![p] =
                            Finish(@, Result(FALSE, "Network processing error", Absent, Null))]
               /\ UNCHANGED nt
          ELSE IF bank_account_id \notin DOMAIN accounts
          THEN /\ att' = [att EXCEPT ![p] =
                            Finish([@ EXCEPT !.payment_data = payment_data],
                                   Result(FALSE, "Bank account not found", Absent, Null))]
               /\ UNCHANGED nt
          ELSE IF optimal_acquirer = NoBank
          THEN /\ att' = [att EXCEPT ![p] =
                            Finish([@ EXCEPT !.payment_data = payment_data,
                                             !.issuer_bank_code = accounts[bank_account_id].bank_code],
                                   Result(FALSE, "No available acquirer found", Absent, Null))]
               /\ UNCHANGED nt
          ELSE /\ att' = [att EXCEPT ![p] =
                            [@ EXCEPT !.pc = "authorize",
                                      !.payment_data = payment_data,
                                      !.session = [accounts |-> accounts, ledger |-> ledger],
                                      !.issuer_bank_code = accounts[bank_account_id].bank_code,
                                      !.acquirer_bank_code = optimal_acquirer.bank_code]]
               /\ nt' = [nt EXCEPT ![p] =
                            NetworkTransaction(p, accounts[bank_account_id].bank_code,
                                               optimal_acquirer.bank_code, amount, currency)]
    /\ UNCHANGED <<accounts, ledger, banks, merchants, ops, dw, hist, payments, refunds, transactions>>

\* Lines 134-174.  The account row is the one the session loaded at line 94;
\* authorize_transaction writes to no row, so the commit of line 158 stores
\* the NetworkTransaction only.
AuthorizeStage(p) ==
    /\ att[p].pc = "authorize"
    /\ \E rolls \in fraud_draws(att[p].session.accounts, banks,
                                att[p].payment_data.bank_account_id,
                                att[p].payment_data.amount),
          roll3 \in Rolls :
          LET a == att[p]
              pd == a.payment_data
              issuer_result == authorize_transaction(a.session.accounts, a.session.ledger, banks,
                                                     pd.bank_account_id, pd.amount,
                                                     rolls[1], rolls[2], roll3)
              called == [a EXCEPT !.calls = Append(@, "authorize"),
                                  !.issuer_result =
                                      [success |-> issuer_result.success,
                                       response_code |-> issuer_result.response_code,
                                       decline_reason |-> issuer_result.decline_reason,
                                       authorization_code |-> issuer_result.authorization_code]]
              tx == issuer_response_update(nt[p], issuer_result)
          IN
          IF ~issuer_result.success
          THEN /\ nt' = [nt EXCEPT ![p] = issuer_declined_update(tx, issuer_result)]
               /\ att' = [att EXCEPT ![p] =
                            Finish(called, Result(FALSE, "Issuer declined",
                                                  issuer_result.response_code,
                                                  a.acquirer_bank_code))]
          ELSE /\ nt' = [nt EXCEPT ![p] = [tx EXCEPT !.issuer_status = "authorized"]]
               /\ att' = [att EXCEPT ![p] = [called EXCEPT !.pc = "settle", !.session = NoSession]]
    /\ UNCHANGED <<accounts, ledger, banks, merchants, ops, dw, hist, payments, refunds, transactions>>

\* Lines 176-258.
SettleStage(p) ==
    /\ att[p].pc = "settle"
    /\ \E daily_volume \in VolumeDraws, roll \in Rolls :
          LET a == att[p]
              pd == a.payment_data
              first_lookup == get_merchant_account(merchants, pd.merchant_id, pd.currency,
                                                   a.acquirer_bank_code)
              second_lookup == get_merchant_account(merchants, pd.merchant_id, pd.currency, Null)
              merchant_account == IF first_lookup # 0 THEN first_lookup ELSE second_lookup
              acquirer_bank_code == IF first_lookup = 0 /\ second_lookup # 0
                                    THEN merchants[second_lookup].acquirer_bank_code
                                    ELSE a.acquirer_bank_code
              acquirer_result == process_settlement(merchants, banks, pd.merchant_id, pd.amount,
                                                    pd.currency, acquirer_bank_code,
                                                    daily_volume, roll)
              called == [a EXCEPT !.calls = Append(@, "settle"),
                                  !.acquirer_bank_code = acquirer_bank_code,
                                  !.acquirer_result =
                                      [success |-> acquirer_result.success,
                                       response_code |-> acquirer_result.response_code,
                                       decline_reason |-> acquirer_result.decline_reason,
                                       fee_info |-> acquirer_result.fee_info]]
              tx == acquirer_response_update(nt[p], acquirer_result)
          IN
          IF merchant_account = 0
          THEN /\ nt' = [nt EXCEPT ![p] = no_merchant_account_update(@)]
               /\ att' = [att EXCEPT ![p] =
                            Finish(a, Result(FALSE, "No merchant account found", Absent,
                                             "NOT_FOUND"))]
               /\ UNCHANGED merchants
          ELSE IF ~acquirer_result.success
          THEN /\ nt' = [nt EXCEPT ![p] = acquirer_declined_update(tx, acquirer_result)]
               /\ att' = [att EXCEPT ![p] =
                            Finish(called, Result(FALSE, "Acquirer failed",
                                                  acquirer_result.response_code,
                                                  acquirer_bank_code))]
               /\ merchants' = acquirer_result.merchants
          ELSE /\ nt' = [nt EXCEPT ![p] = tx]
               /\ att' = [att EXCEPT ![p] = [called EXCEPT !.pc = "capture"]]
               /\ merchants' = acquirer_result.merchants
    /\ UNCHANGED <<accounts, ledger, banks, ops, dw, hist, payments, refunds, transactions>>

\* Lines 260-311.  The settlement's commit expired the session, so the capture
\* reads the account and the day's debits afresh.
CaptureStage(p) ==
    /\ att[p].pc = "capture"
    /\ LET a == att[p]
           pd == a.payment_data
           capture_result == capture_authorization(accounts, ledger, pd.bank_account_id,
                                                   pd.amount, pd.payment_id)
           called == [a EXCEPT !.calls = Append(@, "capture")]
       IN
       /\ accounts' = capture_result.accounts
       /\ ledger' = capture_result.ledger
       /\ IF ~capture_result.success
          THEN /\ nt' = [nt EXCEPT ![p] = capture_failed_update(@)]
               /\ att' = [att EXCEPT ![p] =
                            Finish(called, Result(FALSE, "Capture failed", Absent,
                                                  a.acquirer_bank_code))]
          ELSE /\ nt' = [nt EXCEPT ![p] = success_update(@)]
               /\ att' = [att EXCEPT ![p] =
                            Finish(called, Result(TRUE, Null, Absent, a.acquirer_bank_code))]
    /\ UNCHANGED <<banks, merchants, ops, dw, hist, payments, refunds, transactions>>

\* ------------------------------------------- account operations beside it
DebitOp(account_id, amount) ==
    /\ ops < MaxOps
    /\ LET r == debit_account(accounts, ledger, account_id, amount, Null, "payment") IN
       /\ accounts' = r.accounts
       /\ ledger' = r.ledger
    /\ ops' = ops + 1
    /\ UNCHANGED <<banks, merchants, nt, att, dw, hist, payments, refunds, transactions>>

CreditOp(account_id, amount) ==
    /\ ops < MaxOps
    /\ LET r == credit_account(accounts, ledger, account_id, amount, Null, "refund") IN
       /\ accounts' = r.accounts
       /\ ledger' = r.ledger
    /\ ops' = ops + 1
    /\ UNCHANGED <<banks, merchants, nt, att, dw, hist, payments, refunds, transactions>>

StatusOp(account_id, status) ==
    /\ ops < MaxOps
    /\ LET r == update_account_status(accounts, ledger, account_id, status) IN
       /\ accounts' = r.accounts
       /\ ledger' = r.ledger
    /\ ops' = ops + 1
    /\ UNCHANGED <<banks, merchants, nt, att, dw, hist, payments, refunds, transactions>>

Next ==
    \/ \E p \in PaymentIds : Start(p)
    \/ \E p \in PaymentIds : AuthorizeStage(p)
    \/ \E p \in PaymentIds : SettleStage(p)
    \/ \E p \in PaymentIds : CaptureStage(p)
    \/ \E account_id \in AccountIds, amount \in AmountChoices : DebitOp(account_id, amount)
    \/ \E account_id \in AccountIds, amount \in AmountChoices : CreditOp(account_id, amount)
    \/ \E account_id \in AccountIds, status \in AccountStatuses : StatusOp(account_id, status)

Spec == Init /\ [][Next]_vars

\* ----------------------------------- debit_account, statement by statement
\* Lines 93-108: load the account row, check its status and its balance.
DebitBegin(w, account_id, amount) ==
    /\ dw[w].pc = "idle"
    /\ LET account == accounts[account_id] IN
       IF ~is_active(account)
       THEN dw' = [dw EXCEPT ![w] = [@ EXCEPT !.pc = "done", !.amount = amount,
                       !.result = [success |-> FALSE, error |-> "Account is not active"]]]
       ELSE IF ~has_sufficient_balance(account, amount)
       THEN dw' = [dw EXCEPT ![w] = [@ EXCEPT !.pc = "done", !.amount = amount,
                       !.result = [success |-> FALSE, error |-> "Insufficient funds"]]]
       ELSE dw' = [dw EXCEPT ![w] = [@ EXCEPT !.pc = "daily", !.amount = amount,
                       !.account = [id |-> account_id, row |-> account]]]
    /\ UNCHANGED <<accounts, ledger, banks, merchants, nt, att, ops, hist, payments, refunds, transactions>>

\* Lines 111-116: query the day's debit total and compare it with the limit.
DebitReadDaily(w) ==
    /\ dw[w].pc = "daily"
    /\ LET daily_total == _get_daily_debit_total(ledger, dw[w].account.id) IN
       IF daily_total + dw[w].amount > dw[w].account.row.daily_limit
       THEN dw' = [dw EXCEPT ![w] = [@ EXCEPT !.pc = "done", !.daily_total = daily_total,
                       !.result = [success |-> FALSE, error |-> "Daily limit exceeded"]]]
       ELSE dw' = [dw EXCEPT ![w] = [@ EXCEPT !.pc = "write", !.daily_total = daily_total]]
    /\ UNCHANGED <<accounts, ledger, banks, merchants, nt, att, ops, hist, payments, refunds, transactions>>

\* Lines 119-138: the balance computed from the loaded row is written back,
\* the ledger entry is added, and both are committed.
DebitWrite(w) ==
    /\ dw[w].pc = "write"
    /\ LET account_id == dw[w].account.id
           balance_before == dw[w].account.row.current_balance
           after == balance_before - dw[w].amount
       IN /\ accounts' = [accounts EXCEPT ![account_id].current_balance = after,
                                           ![account_id].available_balance = after,
                                           ![account_id].last_transaction_at = utcnow(ledger)]
          /\ ledger' = Append(ledger, AccountTransaction(account_id, "payment_debit",
                                         dw[w].amount, balance_before, after, w, "payment"))
          /\ dw' = [dw EXCEPT ![w] = [@ EXCEPT !.pc = "done",
                          !.result = [success |-> TRUE, error |-> Null]]]
    /\ UNCHANGED <<banks, merchants, nt, att, ops, hist, payments, refunds, transactions>>

InitConc ==
    /\ accounts \in InitAccounts
    /\ ledger = <<>>
    /\ banks \in {b \in InitBanks : \A i \in 1..Len(b) : b[i].is_active}
    /\ merchants \in {m \in InitMerchants : \A i \in 1..Len(m) : m[i].status = "active"}
    /\ nt = [p \in PaymentIds |-> NoTx]
    /\ att = [p \in PaymentIds |-> IdleAttempt]
    /\ ops = 0
    /\ dw = [w \in Workers |-> IdleWorker]
    /\ hist = <<>>
    /\ payments = <<>>
    /\ refunds = <<>>
    /\ transactions = <<>>

NextConc ==
    \/ \E w \in Workers, account_id \in AccountIds, amount \in AmountChoices :
          DebitBegin(w, account_id, amount)
    \/ \E w \in Workers : DebitReadDaily(w)
    \/ \E w \in Workers : DebitWrite(w)

SpecConc == InitConc /\ [][NextConc]_vars

\* ------------------------------------------- authorize_transaction, called once
\* The customer's account: any status, with or without overdraft, in a currency
\* the issuer supports or not.
AuthAccounts ==
    {[id \in AccountIds |->
        [status |-> st, current_balance |-> b, available_balance |-> b,
         overdraft_limit |-> o, daily_limit |-> d, currency |-> c, bank_code |-> "ISS",
         last_transaction_at |-> 0]] :
     st \in AccountStatuses, b \in {100, 300}, o \in {0, 100}, d \in {100, 300},
     c \in {"USD", "GBP"}}

\* The day's ledger so far: nothing, or one payment of 100 already debited.
AuthLedgers(accts) ==
    {<<>>} \cup
    {<<AccountTransaction(a, "payment_debit", 100, accts[a].current_balance + 100,
                          accts[a].current_balance, "p0", "payment_capture")>> :
       a \in AccountIds}

\* The issuer's configuration: active or not, a single-transaction limit of one
\* purchase unit or a large one, success rate 0.97 or 1.0, each fraud level.
AuthBanks ==
    {<<BankConfiguration("ISS", "issuer", act, 300, rate, lim, 25, 2000, {"USD", "EUR"}, fraud),
       BankConfiguration("ACQA", "acquirer", TRUE, 150, 99, 50000, 15, 1000, {"USD", "EUR"}, "low"),
       BankConfiguration("ACQB", "acquirer", TRUE, 180, 99, 40000, 18, 2000, {"USD"}, "low")>> :
     act \in BOOLEAN, rate \in {97, 100}, lim \in {100, 50000},
     fraud \in {"low", "medium", "high"}}

InitAuth ==
    /\ accounts \in AuthAccounts
    /\ ledger \in AuthLedgers(accounts)
    /\ banks \in AuthBanks
    /\ merchants \in {m \in InitMerchants : \A i \in 1..Len(m) : m[i].status = "active"}
    /\ nt = [p \in PaymentIds |-> NoTx]
    /\ att = [p \in PaymentIds |-> IdleAttempt]
    /\ ops = 0
    /\ dw = [w \in Workers |-> IdleWorker]
    /\ hist = <<>>
    /\ payments = <<>>
    /\ refunds = <<>>
    /\ transactions = <<>>

\* One call of authorize_transaction and what it returned.
Authorize(bank_account_id, amount) ==
    /\ hist = <<>>
    /\ \E rolls \in fraud_draws(accounts, banks, bank_account_id, amount), roll3 \in Rolls :
          LET roll1 == rolls[1]
              roll2 == rolls[2]
              r == authorize_transaction(accounts, ledger, banks, bank_account_id, amount,
                                         roll1, roll2, roll3)
          IN /\ accounts' = r.accounts
             /\ ledger' = r.ledger
             /\ hist' = Append(hist,
                           [op |-> "authorize", account_id |-> bank_account_id,
                            amount |-> amount,
                            roll1 |-> roll1, roll2 |-> roll2, roll3 |-> roll3,
                            success |-> r.success, response_code |-> r.response_code,
                            decline_reason |-> r.decline_reason,
                            evaluated |-> r.evaluated])
    /\ UNCHANGED <<banks, merchants, nt, att, ops, dw, payments, refunds, transactions>>

NextAuth ==
    \E bank_account_id \in AccountIds \cup {UnknownAccountId}, amount \in AmountChoices :
       Authorize(bank_account_id, amount)

SpecAuth == InitAuth /\ [][NextAuth]_vars

\* ------------------------------- account operations, called one after the other
\* What the caller keeps of a call: the operation, its arguments, its result,
\* and the account table and the length of the ledger before it.
Call(op, account_id, amount, status, r) ==
    [op |-> op, account_id |-> account_id, amount |-> amount, status |-> status,
     success |-> r.success, error |-> r.error,
     accounts_before |-> accounts, ledger_before |-> Len(ledger)]

DebitCall(account_id, amount) ==
    /\ Len(hist) < MaxCalls
    /\ LET r == debit_account(accounts, ledger, account_id, amount, Null, "payment") IN
       /\ accounts' = r.accounts
       /\ ledger' = r.ledger
       /\ hist' = Append(hist, Call("debit", account_id, amount, Null, r))
    /\ UNCHANGED <<banks, merchants, nt, att, ops, dw, payments, refunds, transactions>>

CreditCall(account_id, amount) ==
    /\ Len(hist) < MaxCalls
    /\ LET r == credit_account(accounts, ledger, account_id, amount, Null, "refund") IN
       /\ accounts' = r.accounts
       /\ ledger' = r.ledger
       /\ hist' = Append(hist, Call("credit", account_id, amount, Null, r))
    /\ UNCHANGED <<banks, merchants, nt, att, ops, dw, payments, refunds, transactions>>

StatusCall(account_id, status) ==
    /\ Len(hist) < MaxCalls
    /\ LET r == update_account_status(accounts, ledger, account_id, status) IN
       /\ accounts' = r.accounts
       /\ ledger' = r.ledger
       /\ hist' = Append(hist, Call("status", account_id, 0, status, r))
    /\ UNCHANGED <<banks, merchants, nt, att, ops, dw, payments, refunds, transactions>>

InitLedger ==
    /\ accounts \in InitAccounts
    /\ ledger = <<>>
    /\ banks \in {b \in InitBanks : \A i \in 1..Len(b) : b[i].is_active}
    /\ merchants \in {m \in InitMerchants : \A i \in 1..Len(m) : m[i].status = "active"}
    /\ nt = [p \in PaymentIds |-> NoTx]
    /\ att = [p \in PaymentIds |-> IdleAttempt]
    /\ ops = 0
    /\ dw = [w \in Workers |-> IdleWorker]
    /\ hist = <<>>
    /\ payments = <<>>
    /\ refunds = <<>>
    /\ transactions = <<>>

NextLedger ==
    \/ \E account_id \in AccountIds \cup {UnknownAccountId}, amount \in AmountChoices :
          DebitCall(account_id, amount)
    \/ \E account_id \in AccountIds, amount \in AmountChoices : CreditCall(account_id, amount)
    \/ \E account_id \in AccountIds, status \in AccountStatuses : StatusCall(account_id, status)

SpecLedger == InitLedger /\ [][NextLedger]_vars

\* --------------------------------------------- select_optimal_acquirer, called once
\* The bank directory: the issuer and two more banks.  ACQA is of any type,
\* active or not, for one or two currencies; ACQB is an active acquirer or dual
\* bank for USD.  Fees, success rate and latency of both are drawn low or high,
\* the high fee and the high latency beyond the point where their score is 0.
SelectBanks ==
    {<<BankConfiguration("ISS", "issuer", TRUE, 300, 97, 150, 25, 2000, {"USD", "EUR"}, "medium"),
       BankConfiguration("ACQA", ta, act, msa, ra, 50000, fa, pa, ca, "low"),
       BankConfiguration("ACQB", tb, TRUE, msb, rb, 40000, fb, pb, {"USD"}, "low")>> :
       ta \in {"issuer", "acquirer", "dual"}, act \in BOOLEAN,
       ca \in {{"USD"}, {"USD", "EUR"}}, tb \in {"acquirer", "dual"},
       msa \in {150, 1200}, msb \in {150, 1200}, ra \in {95, 99}, rb \in {95, 99},
       fa \in {15, 1200}, fb \in {15, 1200}, pa \in {1000, 2500}, pb \in {1000, 2500}}

InitSelect ==
    /\ accounts \in {a \in InitAccounts : \A id \in AccountIds :
                        /\ a[id].current_balance = 100
                        /\ a[id].overdraft_limit = 0
                        /\ a[id].daily_limit = 100}
    /\ ledger = <<>>
    /\ banks \in SelectBanks
    /\ merchants \in {m \in InitMerchants : \A i \in 1..Len(m) : m[i].status = "active"}
    /\ nt = [p \in PaymentIds |-> NoTx]
    /\ att = [p \in PaymentIds |-> IdleAttempt]
    /\ ops = 0
    /\ dw = [w \in Workers |-> IdleWorker]
    /\ hist = <<>>
    /\ payments = <<>>
    /\ refunds = <<>>
    /\ transactions = <<>>

\* select_optimal_acquirer, lines 48-52: the list of (acquirer, score) pairs.
scored_acquirers(cfgs, amount, currency) ==
    LET available == get_available_acquirers(cfgs, currency)
    IN [i \in 1..Len(available) |->
          [acquirer |-> available[i],
           score |-> _calculate_acquirer_score(available[i], amount)]]

Select(amount, currency) ==
    /\ hist = <<>>
    /\ hist' = <<[op |-> "select", amount |-> amount, currency |-> currency,
                  scored |-> scored_acquirers(banks, amount, currency),
                  selected |-> select_optimal_acquirer(banks, amount, currency).bank_code]>>
    /\ UNCHANGED <<accounts, ledger, banks, merchants, nt, att, ops, dw, payments, refunds, transactions>>

NextSelect == \E amount \in AmountChoices, currency \in Currencies \cup {"GBP"} : Select(amount, currency)

SpecSelect == InitSelect /\ [][NextSelect]_vars

\* ------------------- process_settlement and get_merchant_account, called once
\* Settled amounts: ten cents, less than any per-transaction fee, the purchase
\* amounts, and 100.00.
SettleAmounts == {10, 10000} \cup AmountChoices

\* ACQA is active or not and charges a per-transaction fee of 0.15 or 0.30 and
\* a percentage fee of 1.000 or 2.500.
SettleBanks ==
    {<<BankConfiguration("ISS", "issuer", TRUE, 300, 97, 150, 25, 2000, {"USD", "EUR"}, "medium"),
       BankConfiguration("ACQA", "acquirer", a, 150, 99, 50000, fee, pct, {"USD", "EUR"}, "low"),
       BankConfiguration("ACQB", "acquirer", TRUE, 180, 99, 40000, 18, 2000, {"USD"}, "low")>> :
     a \in BOOLEAN, fee \in {15, 30}, pct \in {1000, 2500}}

\* Two merchant accounts: one of merchant m1 at ACQA, and one at ACQB of m1 or
\* of another merchant, in USD or EUR; each active or closed.
SettleMerchants ==
    {<<MerchantAccount(MerchantId, "ACQA", "USD", sa, la),
       MerchantAccount(mb, "ACQB", cb, sb, 500000)>> :
     sa \in {"active", "closed"}, la \in {500000, 5000000},
     mb \in {MerchantId, "m2"}, cb \in Currencies, sb \in {"active", "closed"}}

InitSettle ==
    /\ accounts \in {a \in InitAccounts : \A id \in AccountIds :
                        /\ a[id].current_balance = 100
                        /\ a[id].overdraft_limit = 0
                        /\ a[id].daily_limit = 100}
    /\ ledger = <<>>
    /\ banks \in SettleBanks
    /\ merchants \in SettleMerchants
    /\ nt = [p \in PaymentIds |-> NoTx]
    /\ att = [p \in PaymentIds |-> IdleAttempt]
    /\ ops = 0
    /\ dw = [w \in Workers |-> IdleWorker]
    /\ hist = <<>>
    /\ payments = <<>>
    /\ refunds = <<>>
    /\ transactions = <<>>

\* The random draws process_settlement makes on its way: _get_daily_volume once
\* the merchant account is found, random.random() once the volume check passed.
settle_draws(mrows, cfgs, merchant_id, amount, currency, acquirer_bank_code) ==
    LET row == get_merchant_account(mrows, merchant_id, currency, acquirer_bank_code)
    IN IF get_bank_configuration(cfgs, acquirer_bank_code) = NoBank \/ row = 0
       THEN {<<0, 0>>}
       ELSE {<<d, r>> \in VolumeDraws \X Rolls :
               d + amount > mrows[row].daily_volume_limit => r = 0}

Settle(merchant_id, amount, currency, acquirer_bank_code) ==
    /\ hist = <<>>
    /\ \E draws \in settle_draws(merchants, banks, merchant_id, amount, currency,
                                 acquirer_bank_code) :
          LET r == process_settlement(merchants, banks, merchant_id, amount, currency,
                                      acquirer_bank_code, draws[1], draws[2])
          IN /\ merchants' = r.merchants
             /\ hist' = <<[op |-> "settle", merchant_id |-> merchant_id, amount |-> amount,
                           currency |-> currency, acquirer_bank_code |-> acquirer_bank_code,
                           daily_volume |-> draws[1], roll |-> draws[2],
                           success |-> r.success, response_code |-> r.response_code,
                           decline_reason |-> r.decline_reason, fee_info |-> r.fee_info,
                           merchants_before |-> merchants]>>
    /\ UNCHANGED <<accounts, ledger, banks, nt, att, ops, dw, payments, refunds, transactions>>

Lookup(merchant_id, currency, preferred_acquirer) ==
    /\ hist = <<>>
    /\ hist' = <<[op |-> "lookup", merchant_id |-> merchant_id, currency |-> currency,
                  preferred_acquirer |-> preferred_acquirer,
                  row |-> get_merchant_account(merchants, merchant_id, currency,
                                               preferred_acquirer)]>>
    /\ UNCHANGED <<accounts, ledger, banks, merchants, nt, att, ops, dw, payments, refunds, transactions>>

NextSettle ==
    \/ \E merchant_id \in {MerchantId, "m2"}, amount \in SettleAmounts, currency \in Currencies,
          acquirer_bank_code \in {"ACQA", "ACQB", "ACQX"} :
          Settle(merchant_id, amount, currency, acquirer_bank_code)
    \/ \E merchant_id \in {MerchantId, "m2"}, currency \in Currencies,
          preferred_acquirer \in {"ACQA", "ACQB", Null} :
          Lookup(merchant_id, currency, preferred_acquirer)

SpecSettle == InitSettle /\ [][NextSettle]_vars

\* ------------------------ authorize_transaction or process_settlement, called once
InitCodes == InitAuth \/ InitSettle

NextCodes == NextAuth \/ NextSettle

SpecCodes == InitCodes /\ [][NextCodes]_vars

\* ------------------------------------------------ one purchase attempt alone
\* The coordinator's stages and nothing else, on an account, a ledger and
\* an issuer configuration drawn as for authorize_transaction.
NextSolo ==
    \/ \E p \in PaymentIds : Start(p)
    \/ \E p \in PaymentIds : AuthorizeStage(p)
    \/ \E p \in PaymentIds : SettleStage(p)
    \/ \E p \in PaymentIds : CaptureStage(p)

SpecSolo == InitAuth /\ [][NextSolo]_vars

\* ------------------------------- process_settlement, statement by statement
\* Lines 84-132: load the acquirer's configuration and the merchant row, make
\* the volume check and the success draw.
SettleBegin(w, amount, acquirer_bank_code) ==
    /\ dw[w].pc = "idle"
    /\ \E draws \in settle_draws(merchants, banks, MerchantId, amount, "USD", acquirer_bank_code) :
          LET r == process_settlement(merchants, banks, MerchantId, amount, "USD",
                                      acquirer_bank_code, draws[1], draws[2])
              row == get_merchant_account(merchants, MerchantId, "USD", acquirer_bank_code)
          IN IF ~r.success
             THEN dw' = [dw EXCEPT ![w] = [@ EXCEPT !.pc = "done", !.amount = amount,
                             !.result = [success |-> FALSE, response_code |-> r.response_code]]]
             ELSE dw' = [dw EXCEPT ![w] = [@ EXCEPT !.pc = "credit", !.amount = amount,
                             !.account = [id |-> row, row |-> merchants[row],
                                          fee_info |-> r.fee_info]]]
    /\ UNCHANGED <<accounts, ledger, banks, merchants, nt, att, ops, hist, payments, refunds, transactions>>

\* Lines 135-139: the balance computed from the loaded row is written back and
\* committed.
SettleCommit(w) ==
    /\ dw[w].pc = "credit"
    /\ LET row == dw[w].account.id
           loaded == <<dw[w].account.row>>
           credited == credit_merchant(loaded, 1, dw[w].amount, dw[w].account.fee_info)
       IN /\ merchants' = [merchants EXCEPT ![row].current_balance = credited[1].current_balance,
                                            ![row].updated_at = credited[1].updated_at]
          /\ dw' = [dw EXCEPT ![w] = [@ EXCEPT !.pc = "done",
                          !.result = [success |-> TRUE,
                                      response_code |-> acquirer_response_codes.approved]]]
    /\ UNCHANGED <<accounts, ledger, banks, nt, att, ops, hist, payments, refunds, transactions>>

InitConcSettle ==
    /\ accounts \in {a \in InitAccounts : \A id \in AccountIds :
                        /\ a[id].current_balance = 100
                        /\ a[id].overdraft_limit = 0
                        /\ a[id].daily_limit = 100}
    /\ ledger = <<>>
    /\ banks \in InitBanks
    /\ merchants \in InitMerchants
    /\ nt = [p \in PaymentIds |-> NoTx]
    /\ att = [p \in PaymentIds |-> IdleAttempt]
    /\ ops = 0
    /\ dw = [w \in Workers |-> IdleWorker]
    /\ hist = <<>>
    /\ payments = <<>>
    /\ refunds = <<>>
    /\ transactions = <<>>

NextConcSettle ==
    \/ \E w \in Workers, amount \in AmountChoices, acquirer_bank_code \in {"ACQA", "ACQB"} :
          SettleBegin(w, amount, acquirer_bank_code)
    \/ \E w \in Workers : SettleCommit(w)

SpecConcSettle == InitConcSettle /\ [][NextConcSettle]_vars

\* ------------------------------- one attempt, merchant with two currencies
\* The merchant holds a USD and a EUR account, as the seeded merchants do; the
\* customer accounts are the USD accounts of Init.
FxMerchants ==
    {<<MerchantAccount(MerchantId, "ACQA", "USD", su, 5000000),
       MerchantAccount(MerchantId, "ACQA", "EUR", se, 5000000)>> :
     su \in {"active", "closed"}, se \in {"active", "closed"}}

InitFx ==
    /\ accounts \in InitAccounts
    /\ ledger = <<>>
    /\ banks \in InitBanks
    /\ merchants \in FxMerchants
    /\ nt = [p \in PaymentIds |-> NoTx]
    /\ att = [p \in PaymentIds |-> IdleAttempt]
    /\ ops = 0
    /\ dw = [w \in Workers |-> IdleWorker]
    /\ hist = <<>>
    /\ payments = <<>>
    /\ refunds = <<>>
    /\ transactions = <<>>

SpecFx == InitFx /\ [][NextSolo]_vars

\* ---------------------------------------------------------- payment service
\* Payment (payment_models.py lines 25-55): status defaults to pending.  The
\* mapped class has no bank_account_id, so a loaded row has none (Absent) and
\* process_payment takes its fallback branch; the column is added by
\* update_database.py, and a row of a class that maps it carries the linked
\* account.  Both tests of process_payment are hasattr-guarded for this reason.
Payment(merchant_id, amount, currency, bank_account_id) ==
    [merchant_id |-> merchant_id, amount |-> amount, currency |-> currency,
     status |-> "pending", bank_account_id |-> bank_account_id]

Refund(payment_id, amount) == [payment_id |-> payment_id, amount |-> amount, status |-> "completed"]

Transaction(payment_id, transaction_type, amount, gateway_response) ==
    [payment_id |-> payment_id, transaction_type |-> transaction_type, amount |-> amount,
     gateway_response |-> gateway_response]

UnknownPaymentId == "p_missing"

\* process_payment, lines 119-124: the two refusals before anything is done.
process_payment_found_only(pays, payment_id) ==
    IF payment_id \notin DOMAIN pays THEN "Payment not found" ELSE Null

process_payment_precheck(pays, payment_id) ==
    IF payment_id \notin DOMAIN pays THEN "Payment not found"
    ELSE IF pays[payment_id].status # "pending" THEN "Payment is not in pending status"
    ELSE Null

\* process_payment, lines 148-182 and 194-218: the outcome is stored with one
\* charge Transaction of the payment's amount.
complete_payment_without_charge(pays, txs, payment_id, success, gateway_response) ==
    [payments |-> [pays EXCEPT ![payment_id].status = IF success THEN "completed" ELSE "failed"],
     transactions |-> txs]

complete_payment(pays, txs, payment_id, success, gateway_response) ==
    [payments |-> [pays EXCEPT ![payment_id].status = IF success THEN "completed" ELSE "failed"],
     transactions |-> Append(txs, Transaction(payment_id, "charge", pays[payment_id].amount,
                                              gateway_response))]

\* The completed refunds of a payment, summed (lines 242-245).
total_refunded(refs, payment_id) ==
    SumSeq([i \in 1..Len(refs) |->
              IF refs[i].payment_id = payment_id /\ refs[i].status = "completed"
              THEN refs[i].amount ELSE 0],
           Len(refs))

\* refund_payment, lines 229-300.  refund_amount is the request's amount, or the
\* payment's amount when the request gives none.
refund_payment_any_status(pays, refs, txs, accts, led, payment_id, refund_data) ==
    LET unchanged == [payments |-> pays, refunds |-> refs, transactions |-> txs,
                      accounts |-> accts, ledger |-> led]
    IN
    IF payment_id \notin DOMAIN pays
    THEN [success |-> FALSE, error |-> "Payment not found"] @@ unchanged
    ELSE LET payment == pays[payment_id]
             refund_amount == IF "amount" \in DOMAIN refund_data
                              THEN refund_data.amount ELSE payment.amount
             refunded == total_refunded(refs, payment_id)
             credit_result == credit_account(accts, led, payment.bank_account_id, refund_amount,
                                             Null, "refund")
             linked == payment.bank_account_id # Absent
             new_total_refunded == refunded + refund_amount
         IN
         IF refunded + refund_amount > payment.amount
         THEN [success |-> FALSE, error |-> "Refund amount exceeds available amount"] @@ unchanged
         ELSE IF linked /\ ~credit_result.success
         THEN [success |-> FALSE, error |-> "Failed to credit bank account"] @@ unchanged
         ELSE [success |-> TRUE, error |-> Null,
               payments |-> [pays EXCEPT ![payment_id].status =
                                IF new_total_refunded = payment.amount
                                THEN "refunded" ELSE "partial_refunded"],
               refunds |-> Append(refs, Refund(payment_id, refund_amount)),
               transactions |-> Append(txs, Transaction(payment_id, "refund", refund_amount,
                                                        "SUCCESS")),
               accounts |-> IF linked THEN credit_result.accounts ELSE accts,
               ledger |-> IF linked THEN credit_result.ledger ELSE led]

refund_payment(pays, refs, txs, accts, led, payment_id, refund_data) ==
    LET unchanged == [payments |-> pays, refunds |-> refs, transactions |-> txs,
                      accounts |-> accts, ledger |-> led]
    IN
    IF payment_id \notin DOMAIN pays
    THEN [success |-> FALSE, error |-> "Payment not found"] @@ unchanged
    ELSE LET payment == pays[payment_id]
             refund_amount == IF "amount" \in DOMAIN refund_data
                              THEN refund_data.amount ELSE payment.amount
             refunded == total_refunded(refs, payment_id)
             credit_result == credit_account(accts, led, payment.bank_account_id, refund_amount,
                                             Null, "refund")
             linked == payment.bank_account_id # Absent
             new_total_refunded == refunded + refund_amount
         IN
         IF payment.status # "completed"
         THEN [success |-> FALSE, error |-> "Payment is not completed"] @@ unchanged
         ELSE IF refunded + refund_amount > payment.amount
         THEN [success |-> FALSE, error |-> "Refund amount exceeds available amount"] @@ unchanged
         ELSE IF linked /\ ~credit_result.success
         THEN [success |-> FALSE, error |-> "Failed to credit bank account"] @@ unchanged
         ELSE [success |-> TRUE, error |-> Null,
               payments |-> [pays EXCEPT ![payment_id].status =
                                IF new_total_refunded = payment.amount
                                THEN "refunded" ELSE "partial_refunded"],
               refunds |-> Append(refs, Refund(payment_id, refund_amount)),
               transactions |-> Append(txs, Transaction(payment_id, "refund", refund_amount,
                                                        "SUCCESS")),
               accounts |-> IF linked THEN credit_result.accounts ELSE accts,
               ledger |-> IF linked THEN credit_result.ledger ELSE led]

\* What the caller sent and got back: the payment's status when the request
\* arrived, the success flag, and the status in the returned payment.  hist
\* holds the response returned last.
Response(op, payment_id, request, status_before, success, status) ==
    [op |-> op, payment_id |-> payment_id, request |-> request, status_before |-> status_before,
     success |-> success, status |-> status]

StatusOf(pays, payment_id) == IF payment_id \in DOMAIN pays THEN pays[payment_id].status ELSE Null

\* Refund requests: an amount, or none (the whole payment).
RefundData == {[amount |-> a] : a \in AmountChoices} \cup {[reason |-> "Customer request"]}

\* One pending payment of the merchant, linked to the customer's account or not.
InitPay ==
    /\ accounts \in InitAccounts
    /\ ledger = <<>>
    /\ banks \in InitBanks
    /\ merchants \in InitMerchants
    /\ nt = [p \in PaymentIds |-> NoTx]
    /\ att = [p \in PaymentIds |-> IdleAttempt]
    /\ ops = 0
    /\ dw = [w \in Workers |-> IdleWorker]
    /\ hist = <<>>
    /\ payments \in {[p \in PaymentIds |-> Payment(MerchantId, amount, "USD", bank_account_id)] :
                        amount \in AmountChoices, bank_account_id \in AccountIds \cup {Absent}}
    /\ refunds = <<>>
    /\ transactions = <<>>

\* process_payment, lines 119-128: a request is refused, or the payment is
\* set to processing and committed.
ProcessBegin(payment_id) ==
    /\ LET error == process_payment_precheck(payments, payment_id) IN
       IF error # Null
       THEN /\ hist' = <<Response("process", payment_id, NoData,
                                             StatusOf(payments, payment_id), FALSE,
                                             StatusOf(payments, payment_id))>>
            /\ UNCHANGED payments
       ELSE /\ payments' = [payments EXCEPT ![payment_id].status = "processing"]
            /\ UNCHANGED hist
    /\ UNCHANGED <<accounts, ledger, banks, merchants, nt, att, ops, dw, refunds, transactions>>

\* Lines 133-146: the linked payment is handed to the network coordinator.
ProcessNetwork(p) ==
    /\ payments[p].status = "processing"
    /\ payments[p].bank_account_id # Absent
    /\ Start(p)
    /\ att'[p].payment_data = [payment_id |-> p, amount |-> payments[p].amount,
                               currency |-> payments[p].currency,
                               bank_account_id |-> payments[p].bank_account_id,
                               merchant_id |-> payments[p].merchant_id]

\* Lines 148-188: the coordinator has returned.
ProcessEnd(p) ==
    /\ payments[p].status = "processing"
    /\ att[p].pc = "done"
    /\ LET r == complete_payment(payments, transactions, p, att[p].result.success,
                                 IF att[p].result.success THEN "SUCCESS"
                                 ELSE "NETWORK_DECLINED")
       IN /\ payments' = r.payments
          /\ transactions' = r.transactions
          /\ hist' = <<Response("process", p, NoData, "pending", TRUE,
                                           r.payments[p].status)>>
    /\ UNCHANGED <<accounts, ledger, banks, merchants, nt, att, ops, dw, refunds>>

\* Lines 189-219: a payment without a linked account; random.random() > 0.1.
ProcessFallback(p) ==
    /\ payments[p].status = "processing"
    /\ payments[p].bank_account_id = Absent
    /\ \E roll \in Rolls :
          LET r == complete_payment(payments, transactions, p, roll > FallbackDeclinePerMille,
                                    IF roll > FallbackDeclinePerMille
                                    THEN "SUCCESS (fallback)" ELSE "DECLINED (fallback)")
          IN /\ payments' = r.payments
             /\ transactions' = r.transactions
             /\ hist' = <<Response("process", p, NoData, "pending", TRUE,
                                              r.payments[p].status)>>
    /\ UNCHANGED <<accounts, ledger, banks, merchants, nt, att, ops, dw, refunds>>

RefundRequest(payment_id, refund_data) ==
    /\ LET r == refund_payment(payments, refunds, transactions, accounts, ledger,
                               payment_id, refund_data)
       IN /\ payments' = r.payments
          /\ refunds' = r.refunds
          /\ transactions' = r.transactions
          /\ accounts' = r.accounts
          /\ ledger' = r.ledger
          /\ hist' = <<Response("refund", payment_id, refund_data,
                                           StatusOf(payments, payment_id), r.success,
                                           StatusOf(r.payments, payment_id))>>
    /\ UNCHANGED <<banks, merchants, nt, att, ops, dw>>

NextPay ==
    \/ \E payment_id \in PaymentIds \cup {UnknownPaymentId} : ProcessBegin(payment_id)
    \/ \E p \in PaymentIds : ProcessNetwork(p)
    \/ \E p \in PaymentIds : AuthorizeStage(p)
    \/ \E p \in PaymentIds : SettleStage(p)
    \/ \E p \in PaymentIds : CaptureStage(p)
    \/ \E p \in PaymentIds : ProcessEnd(p)
    \/ \E p \in PaymentIds : ProcessFallback(p)
    \/ \E payment_id \in PaymentIds \cup {UnknownPaymentId}, refund_data \in RefundData :
          RefundRequest(payment_id, refund_data)

SpecPay == InitPay /\ [][NextPay]_vars

\* =================================================================== claims
RECURSIVE SetSum(_, _)
SetSum(f, S) == IF S = {} THEN 0
                ELSE LET x == CHOOSE y \in S : TRUE IN f[x] + SetSum(f, S \ {x})

Done(p) == att[p].pc = "done"
ExitedWith(p, error) == Done(p) /\ att[p].result.error = error

\* The ledger entries made for the payment of attempt p.
PaymentEntries(p) == {i \in 1..Len(ledger) : ledger[i].reference_id = p}

\* The merchant row credited by the settlement of attempt p (0: none).
CreditedRow(p) ==
    IF att[p].acquirer_result.success
    THEN get_merchant_account(merchants, att[p].payment_data.merchant_id,
                              att[p].payment_data.currency, att[p].acquirer_bank_code)
    ELSE 0

\* The net amounts of the approved settlements into merchant row r.
SettledInto(r) ==
    SetSum([p \in PaymentIds |->
              IF CreditedRow(p) = r THEN att[p].acquirer_result.fee_info.net_amount ELSE 0],
           PaymentIds)

\* The acquirers at which the merchant has an active account in the currency.
MerchantAcquirers(merchant_id, currency) ==
    {merchants[i].acquirer_bank_code : i \in
       {j \in 1..Len(merchants) : /\ merchants[j].merchant_id = merchant_id
                                   /\ merchants[j].currency = currency
                                   /\ merchants[j].status = "active"}}

BankCodes == {"ISS", "ACQA", "ACQB"}

\* C1: with the account operations run one at a time from an effective balance
\* >= 0, every successful debit leaves current balance + overdraft limit >= 0:
\* the account never shows a negative effective balance and every debit entry
\* records a balance_after that, with the overdraft limit, is >= 0.
C1_DebitKeepsEffectiveBalance ==
    /\ \A a \in AccountIds : effective_balance(accounts[a]) >= 0
    /\ \A i \in 1..Len(ledger) :
          ledger[i].transaction_type = "payment_debit" =>
             /\ ledger[i].balance_after = ledger[i].balance_before - ledger[i].amount
             /\ ledger[i].balance_after + accounts[ledger[i].account_id].overdraft_limit >= 0

\* A debit has succeeded and used the whole effective balance.
C1_Witness ==
    \E i \in 1..Len(ledger) :
       /\ ledger[i].transaction_type = "payment_debit"
       /\ ledger[i].balance_after + accounts[ledger[i].account_id].overdraft_limit = 0
       /\ accounts[ledger[i].account_id].overdraft_limit > 0

\* C2: when debits of the same account run concurrently, the day's successful
\* debits stay <= the daily limit and the effective balance stays >= 0 under
\* every interleaving.
C2_ConcurrentDebitsRespectLimits ==
    \A a \in AccountIds :
       /\ _get_daily_debit_total(ledger, a) <= accounts[a].daily_limit
       /\ effective_balance(accounts[a]) >= 0

\* C3: an attempt whose settlement was approved and whose capture failed ends
\* with final status failed; the merchant row keeps the net amount credited by
\* the settlement, in every later state; no ledger entry debits the customer
\* for the payment.
C3_CaptureFailureKeepsMerchantCredit ==
    \A p \in PaymentIds :
       ExitedWith(p, "Capture failed") =>
          /\ att[p].calls = <<"authorize", "settle", "capture">>
          /\ att[p].acquirer_result.success
          /\ nt[p].final_status = "failed"
          /\ PaymentEntries(p) = {}
          /\ CreditedRow(p) # 0
          /\ merchants[CreditedRow(p)].current_balance * FeeScale = SettledInto(CreditedRow(p))

C3_Witness ==
    \E p \in PaymentIds :
       /\ ExitedWith(p, "Capture failed")
       /\ merchants[CreditedRow(p)].current_balance * FeeScale
             = att[p].payment_data.amount * FeeScale
                  - att[p].acquirer_result.fee_info.total_fee

C5_IssuerDeclineStops ==
    [][\A p \in PaymentIds :
          /\ (/\ att[p].pc = "authorize"
              /\ att'[p].calls # att[p].calls
              /\ ~att'[p].issuer_result.success)
             => /\ att'[p].pc = "done"
                /\ nt'[p].final_status = "declined"
                /\ att'[p].calls = <<"authorize">>
                /\ accounts' = accounts
                /\ ledger' = ledger
                /\ merchants' = merchants
          /\ ExitedWith(p, "Issuer declined")
             => /\ att'[p] = att[p]
                /\ nt'[p] = nt[p]
                /\ nt[p].final_status = "declined"]_vars

C5_Witness ==
    \E p \in PaymentIds :
       /\ ExitedWith(p, "Issuer declined")
       /\ att[p].issuer_result.response_code = issuer_response_codes.insufficient_funds

\* C6: when the acquirer declines the settlement of an authorized attempt, the
\* stage ends the attempt with final status failed, capture is not invoked, the
\* stage leaves the customer account, the ledger and the merchant accounts as
\* they were, and the attempt takes no further step.
C6_AcquirerDeclineStops ==
    [][\A p \in PaymentIds :
          /\ (/\ att[p].pc = "settle"
              /\ att'[p].calls # att[p].calls
              /\ ~att'[p].acquirer_result.success)
             => /\ att'[p].pc = "done"
                /\ nt'[p].final_status = "failed"
                /\ att'[p].calls = <<"authorize", "settle">>
                /\ accounts' = accounts
                /\ ledger' = ledger
                /\ merchants' = merchants
          /\ ExitedWith(p, "Acquirer failed")
             => /\ att'[p] = att[p]
                /\ nt'[p] = nt[p]
                /\ nt[p].final_status = "failed"]_vars

C6_Witness ==
    \E p \in PaymentIds :
       /\ ExitedWith(p, "Acquirer failed")
       /\ att[p].acquirer_result.response_code = acquirer_response_codes.processing_error

\* C7: on every exit path (issuer decline, no merchant account, settlement
\* decline, capture failure, success) the persisted record has its total
\* elapsed time and its completion timestamp set and a final status that is no
\* longer pending.
C7_EveryExitStampsRecord ==
    \A p \in PaymentIds :
       (Done(p) /\ (att[p].result.success
                    \/ att[p].result.error \in {"Issuer declined", "No merchant account found",
                                                "Acquirer failed", "Capture failed"}))
       => /\ nt[p] # NoTx
          /\ nt[p].committed
          /\ nt[p].total_processing_time_ms # Null
          /\ nt[p].completed_at # Null
          /\ nt[p].final_status # "pending"

\* C8: every attempt given to the coordinator has its NetworkTransaction record
\* from the start, also when it ends early or with an internal error.
C8_EveryAttemptHasRecord ==
    \A p \in PaymentIds : att[p].pc # "idle" => nt[p] # NoTx

\* C9: when the merchant's only active account in the purchase currency is at
\* an acquirer B other than the selected acquirer A, settlement is requested
\* with B's bank code and B is the acquirer reported for the attempt.
C9_SwitchesToMerchantsAcquirer ==
    \A p \in PaymentIds :
       (/\ Len(att[p].calls) >= 2
        /\ \E b \in BankCodes :
              /\ MerchantAcquirers(att[p].payment_data.merchant_id,
                                   att[p].payment_data.currency) = {b}
              /\ b # nt[p].acquirer_bank_code)
       => /\ {att[p].acquirer_bank_code}
                = MerchantAcquirers(att[p].payment_data.merchant_id, att[p].payment_data.currency)
          /\ Done(p) => {att[p].result.acquirer_bank}
                = MerchantAcquirers(att[p].payment_data.merchant_id, att[p].payment_data.currency)

\* C10: when the merchant has no active account in the purchase currency, an
\* authorized attempt ends with final status failed and a decline reason naming
\* the missing merchant account, settlement and capture are not performed, and
\* the record's acquirer bank field holds no bank's code.
C10_NoMerchantAccountLeavesAcquirerUnresolved ==
    \A p \in PaymentIds :
       (/\ Done(p)
        /\ att[p].issuer_result.success
        /\ MerchantAcquirers(att[p].payment_data.merchant_id, att[p].payment_data.currency) = {})
       => /\ nt[p].final_status = "failed"
          /\ nt[p].decline_reason = "No merchant account found"
          /\ att[p].calls = <<"authorize">>
          /\ nt[p].acquirer_bank_code \notin BankCodes

\* The three stages, in the order the coordinator invokes them.
Stages == <<"authorize", "settle", "capture">>

\* C11: within one attempt the coordinator invokes authorization, settlement and
\* capture at most once each and in that order; once a stage has failed, or the
\* attempt has returned, no stage is invoked any more (so no second settlement
\* with another acquirer either).
C11_StagesAtMostOnceNoRetry ==
    [][\A p \in PaymentIds :
          /\ \/ att'[p].calls = att[p].calls
             \/ /\ Len(att[p].calls) < Len(Stages)
                /\ att'[p].calls = SubSeq(Stages, 1, Len(att[p].calls) + 1)
          /\ (\/ Len(att[p].calls) >= 1 /\ ~att[p].issuer_result.success
              \/ Len(att[p].calls) >= 2 /\ ~att[p].acquirer_result.success
              \/ Done(p))
             => att'[p].calls = att[p].calls]_vars

\* A settlement was declined while the merchant also has an account at another
\* acquirer, and the attempt has ended after that one settlement.
C11_Witness ==
    \E p \in PaymentIds :
       /\ ExitedWith(p, "Acquirer failed")
       /\ att[p].calls = <<"authorize", "settle">>
       /\ Cardinality(MerchantAcquirers(att[p].payment_data.merchant_id,
                                        att[p].payment_data.currency)) = 2

\* The authorize calls the caller has made.
AuthCalls == {i \in 1..Len(hist) : hist[i].op = "authorize"}

\* The account's bank has an active configuration row.
HasActiveConfig(bank_code) ==
    \E i \in 1..Len(banks) : banks[i].bank_code = bank_code /\ banks[i].is_active

\* The active configuration row of the bank.
ActiveConfig(bank_code) ==
    banks[CHOOSE i \in 1..Len(banks) : banks[i].bank_code = bank_code /\ banks[i].is_active]

\* The checks that look at the amount, the funds, the limits or the draws.
AmountChecks == {"single_limit", "balance", "daily_limit", "fraud", "success_rate"}

Evaluated(i) == {hist[i].evaluated[k] : k \in 1..Len(hist[i].evaluated)}

\* C12 (as stated): for every account whose status is frozen, closed or
\* suspended, authorize returns invalid_account (14) and evaluates none of the
\* balance, limit, fraud and success-probability checks, whatever the amount
\* and whatever the state of the bank's configuration.
C12_NonActiveAlwaysInvalidAccount ==
    \A i \in AuthCalls :
       (/\ hist[i].account_id \in DOMAIN accounts
        /\ accounts[hist[i].account_id].status \in {"frozen", "closed", "suspended"})
       => /\ ~hist[i].success
          /\ hist[i].response_code = "14"
          /\ Evaluated(i) \cap AmountChecks = {}

\* C12 (amended): for every account whose status is frozen, closed or suspended
\* and whose bank has an active configuration, authorize returns
\* invalid_account (14) and evaluates none of the currency, balance, limit,
\* fraud and success-probability checks, whatever the amount; when the bank has
\* no active configuration it returns system_error (96) without looking at the
\* status.
C12_NonActiveWithConfigInvalidAccount ==
    \A i \in AuthCalls :
       (/\ hist[i].account_id \in DOMAIN accounts
        /\ accounts[hist[i].account_id].status \in {"frozen", "closed", "suspended"})
       => /\ ~hist[i].success
          /\ Evaluated(i) \cap (AmountChecks \cup {"currency"}) = {}
          /\ IF HasActiveConfig(accounts[hist[i].account_id].bank_code)
             THEN hist[i].response_code = "14" /\ "status" \in Evaluated(i)
             ELSE hist[i].response_code = "96" /\ "status" \notin Evaluated(i)

\* A closed account whose funds, currency and limits would all fail as well, at a
\* bank with an active configuration, was declined with code 14.
C12_Witness ==
    \E i \in AuthCalls :
       /\ hist[i].account_id \in DOMAIN accounts
       /\ accounts[hist[i].account_id].status = "closed"
       /\ HasActiveConfig(accounts[hist[i].account_id].bank_code)
       /\ hist[i].amount > effective_balance(accounts[hist[i].account_id])
       /\ hist[i].amount > ActiveConfig(accounts[hist[i].account_id].bank_code).single_transaction_limit
       /\ hist[i].response_code = "14"

\* Today's debit-type entries of the account, summed from the ledger.
TodaysDebits(a) ==
    SetSum([i \in 1..Len(ledger) |-> ledger[i].amount],
           {i \in 1..Len(ledger) : /\ ledger[i].account_id = a
                                    /\ ledger[i].transaction_type
                                          \in {"debit", "payment_debit", "transfer_out"}})

LastEvaluated(i) == hist[i].evaluated[Len(hist[i].evaluated)]

C14_ApprovesWhenAllChecksPass ==
    \A i \in AuthCalls :
       (/\ hist[i].account_id \in DOMAIN accounts
        /\ HasActiveConfig(accounts[hist[i].account_id].bank_code)
        /\ LET account == accounts[hist[i].account_id]
               config == ActiveConfig(account.bank_code)
           IN /\ account.status = "active"
              /\ account.currency \in config.supported_currencies
              /\ account.current_balance + account.overdraft_limit >= hist[i].amount
              /\ hist[i].amount <= config.single_transaction_limit
              /\ TodaysDebits(hist[i].account_id) + hist[i].amount <= account.daily_limit
              /\ config.success_rate = 100
              /\ config.fraud_detection_level = "low")
       => hist[i].success /\ hist[i].response_code = "00"

\* Approved although every draw was the adverse one: low fraud draws on an amount
\* above 80% of the daily limit, and the highest success draw.
C14_Witness ==
    \E i \in AuthCalls :
       /\ hist[i].success
       /\ hist[i].response_code = "00"
       /\ ActiveConfig(accounts[hist[i].account_id].bank_code).fraud_detection_level = "low"
       /\ ActiveConfig(accounts[hist[i].account_id].bank_code).success_rate = 100
       /\ 10 * hist[i].amount > 8 * accounts[hist[i].account_id].daily_limit
       /\ hist[i].roll1 = 0 /\ hist[i].roll2 = 0 /\ hist[i].roll3 = 995

\* C15: a call of authorize, approved or declined, leaves the account table
\* (current balance, available balance, status) and the ledger as they were.
C15_AuthorizeChangesNothing ==
    [][(hist' # hist /\ hist'[Len(hist')].op = "authorize")
       => accounts' = accounts /\ ledger' = ledger]_vars

\* An authorization has been approved and the account still holds the whole
\* amount, with no ledger entry for it.
C15_Witness ==
    \E i \in AuthCalls :
       /\ hist[i].success
       /\ ledger = <<>>
       /\ accounts[hist[i].account_id].available_balance
             = accounts[hist[i].account_id].current_balance

\* The check that fails first, in the order account, bank configuration,
\* status, currency, single-transaction limit, funds, daily limit, fraud,
\* success draw ("none" when all pass), and its response code.
FirstFailing(i) ==
    IF hist[i].account_id \notin DOMAIN accounts THEN <<"account", "14">>
    ELSE IF ~HasActiveConfig(accounts[hist[i].account_id].bank_code)
    THEN <<"bank_config", "96">>
    ELSE LET account == accounts[hist[i].account_id]
             config == ActiveConfig(account.bank_code)
         IN IF account.status # "active" THEN <<"status", "14">>
            ELSE IF account.currency \notin config.supported_currencies
            THEN <<"currency", "96">>
            ELSE IF hist[i].amount > config.single_transaction_limit
            THEN <<"single_limit", "61">>
            ELSE IF account.current_balance + account.overdraft_limit < hist[i].amount
            THEN <<"balance", "51">>
            ELSE IF TodaysDebits(hist[i].account_id) + hist[i].amount > account.daily_limit
            THEN <<"daily_limit", "61">>
            ELSE IF /\ config.fraud_detection_level # "low"
                    /\ \/ /\ 10 * hist[i].amount > 8 * account.daily_limit
                          /\ hist[i].roll1 < FraudHighAmountRate
                       \/ /\ config.fraud_detection_level = "high"
                          /\ hist[i].roll2 < FraudVelocityRate
            THEN <<"fraud", "59">>
            ELSE IF hist[i].roll3 > 10 * config.success_rate
            THEN <<"success_rate", "96">>
            ELSE <<"none", "00">>

CheckOrder ==
    <<"account", "bank_config", "status", "currency", "single_limit", "balance",
      "daily_limit", "fraud", "success_rate">>

\* C16: authorize evaluates its checks in the order account exists (14), bank
\* configuration active (96), account status (14), currency (96),
\* single-transaction limit (61), funds (51), daily limit (61), fraud (59),
\* success draw (96): it returns the code of the first check that fails, having
\* evaluated exactly the checks up to that one, and approves (00) when none
\* fails.
C16_FirstFailingCheckDecides ==
    \A i \in AuthCalls :
       /\ hist[i].response_code = FirstFailing(i)[2]
       /\ hist[i].success <=> FirstFailing(i)[1] = "none"
       /\ \E k \in 1..Len(CheckOrder) : hist[i].evaluated = SubSeq(CheckOrder, 1, k)
       /\ ~hist[i].success => LastEvaluated(i) = FirstFailing(i)[1]

\* A request over the single-transaction limit that also lacks the funds was
\* declined with 61.
C16_Witness ==
    \E i \in AuthCalls :
       /\ FirstFailing(i) = <<"single_limit", "61">>
       /\ effective_balance(accounts[hist[i].account_id]) < hist[i].amount
       /\ hist[i].response_code = "61"

\* The account table and the length of the ledger right after call i.
AccountsAfter(i) == IF i = Len(hist) THEN accounts ELSE hist[i + 1].accounts_before
LedgerAfter(i) == IF i = Len(hist) THEN Len(ledger) ELSE hist[i + 1].ledger_before

\* Call i is a successful debit and call i + 1 a credit of the same amount on
\* the same account.
DebitThenCredit(i) ==
    /\ i + 1 <= Len(hist)
    /\ hist[i].op = "debit" /\ hist[i].success
    /\ hist[i + 1].op = "credit"
    /\ hist[i + 1].account_id = hist[i].account_id
    /\ hist[i + 1].amount = hist[i].amount

\* C17: a successful debit of an amount followed by a credit of the same amount
\* on the same account restores the account's original current balance and
\* appends exactly two ledger entries, the debit's and then the credit's, where
\* the debit entry's balance_after is the credit entry's balance_before and the
\* credit entry's balance_after is the original balance.
C17_DebitThenCreditRestoresBalance ==
    \A i \in 1..Len(hist) :
       DebitThenCredit(i) =>
          LET a == hist[i].account_id
              original == hist[i].accounts_before[a].current_balance
              n == hist[i].ledger_before
          IN /\ hist[i + 1].success
             /\ AccountsAfter(i + 1)[a].current_balance = original
             /\ LedgerAfter(i + 1) = n + 2
             /\ ledger[n + 1].transaction_type = "payment_debit"
             /\ ledger[n + 2].transaction_type = "refund_credit"
             /\ ledger[n + 1].account_id = a /\ ledger[n + 2].account_id = a
             /\ ledger[n + 1].amount = hist[i].amount
             /\ ledger[n + 2].amount = hist[i].amount
             /\ ledger[n + 1].balance_before = original
             /\ ledger[n + 1].balance_after = ledger[n + 2].balance_before
             /\ ledger[n + 2].balance_after = original

\* A debit into the overdraft, then the credit of the same amount.
C17_Witness ==
    \E i \in 1..Len(hist) :
       /\ DebitThenCredit(i)
       /\ ledger[hist[i].ledger_before + 1].balance_after < 0
       /\ hist[i].ledger_before > 0

\* balance_after = balance_before - amount for a debit-type entry and
\* balance_before + amount for a credit-type entry.
EntryBalanced(e) ==
    /\ e.transaction_type \in {"debit", "payment_debit", "transfer_out"}
          => e.balance_after = e.balance_before - e.amount
    /\ e.transaction_type \in {"credit", "refund_credit", "transfer_in"}
          => e.balance_after = e.balance_before + e.amount

\* C18: every step of debit, credit or status change leaves the entries
\* already in the ledger as they are, in place, and every entry of the ledger
\* has balance_after = balance_before -/+ amount for its type.
C18_LedgerAppendOnlyAndBalanced ==
    [][/\ Len(ledger') >= Len(ledger)
       /\ SubSeq(ledger', 1, Len(ledger)) = ledger
       /\ \A i \in 1..Len(ledger') :
             /\ ledger'[i].transaction_type
                   \in {"debit", "payment_debit", "transfer_out",
                        "credit", "refund_credit", "transfer_in"}
             /\ EntryBalanced(ledger'[i])]_vars

\* The ledger holds a payment debit, a refund credit and a status-change entry.
C18_Witness ==
    /\ Len(ledger) = 3
    /\ \E i, j, k \in 1..Len(ledger) :
          /\ ledger[i].transaction_type = "payment_debit" /\ ledger[i].amount > 0
          /\ ledger[j].transaction_type = "refund_credit" /\ ledger[j].amount > 0
          /\ ledger[k].reference_type = "status_change"

\* The amounts of the successful debits of the account among the first n calls.
DebitedBefore(a, n) ==
    SetSum([i \in 1..Len(hist) |-> hist[i].amount],
           {i \in 1..n : hist[i].op = "debit" /\ hist[i].success /\ hist[i].account_id = a})

\* C19: with debits made one at a time, the successful debits of an account
\* never sum to more than its daily limit; a debit is accepted only if the
\* successful debits before it plus its amount are <= the limit and is
\* refused for the daily limit only if they are above it, whatever credits
\* were made in between.
C19_DailyLimitBoundsDebits ==
    /\ \A a \in AccountIds : DebitedBefore(a, Len(hist)) <= accounts[a].daily_limit
    /\ \A i \in 1..Len(hist) :
          (hist[i].op = "debit" /\ hist[i].account_id \in AccountIds) =>
             LET a == hist[i].account_id
                 used == DebitedBefore(a, i - 1)
             IN /\ hist[i].success => used + hist[i].amount <= accounts[a].daily_limit
                /\ hist[i].error = "Daily limit exceeded"
                      => used + hist[i].amount > accounts[a].daily_limit

\* A debit used up the daily limit, a credit followed, and the next debit, with
\* the funds for it, was refused for the daily limit.
C19_Witness ==
    /\ Len(hist) = 3
    /\ hist[1].op = "debit" /\ hist[1].success
    /\ hist[2].op = "credit" /\ hist[2].success
    /\ hist[3].op = "debit" /\ hist[3].error = "Daily limit exceeded"
    /\ effective_balance(accounts[hist[3].account_id]) >= hist[3].amount

\* C20: a debit of an account that is missing or not active, or of an amount
\* above the effective balance, or that would take the day's debits above the
\* daily limit, returns a failure and leaves the account table (balance,
\* last-activity stamp) and the ledger exactly as they were.
C20_RejectedDebitChangesNothing ==
    [][(hist' # hist /\ hist'[Len(hist')].op = "debit")
       => LET c == hist'[Len(hist')]
              a == c.account_id
              rejected ==
                 \/ a \notin DOMAIN accounts
                 \/ accounts[a].status # "active"
                 \/ accounts[a].current_balance + accounts[a].overdraft_limit < c.amount
                 \/ TodaysDebits(a) + c.amount > accounts[a].daily_limit
          IN /\ rejected => ~c.success
             /\ ~c.success => /\ rejected
                               /\ c.error # Null
                               /\ accounts' = accounts
                               /\ ledger' = ledger]_vars

\* A debit was refused for the daily limit on an account that had been debited
\* before; its last-activity stamp is still the one of that earlier debit.
C20_Witness ==
    \E i \in 2..Len(hist) :
       /\ hist[i].op = "debit" /\ ~hist[i].success
       /\ hist[i].error = "Daily limit exceeded"
       /\ hist[i].accounts_before[hist[i].account_id].last_transaction_at > 0
       /\ AccountsAfter(i) = hist[i].accounts_before

\* The ledger entries of account a, in ledger order.
EntriesOf(a) == {i \in 1..Len(ledger) : ledger[i].account_id = a}

\* The balance account a had before its first ledger entry was made.
OpeningBalance(a) ==
    IF EntriesOf(a) = {} THEN accounts[a].current_balance
    ELSE ledger[MinOf(EntriesOf(a))].balance_before

SignedAmount(e) ==
    IF e.transaction_type \in {"credit", "refund_credit", "transfer_in"} THEN e.amount
    ELSE IF e.transaction_type \in {"debit", "payment_debit", "transfer_out"} THEN 0 - e.amount
    ELSE 0

\* C21: in every reachable state the current balance of an account is its
\* opening balance plus the sum of its credit-type ledger entries minus the
\* sum of its debit-type ledger entries.
C21_BalanceIsOpeningPlusLedger ==
    \A a \in AccountIds :
       accounts[a].current_balance
          = OpeningBalance(a)
              + SetSum([i \in EntriesOf(a) |-> SignedAmount(ledger[i])], EntriesOf(a))

\* Call i is a credit of an existing account.
CreditOfExisting(i) == hist[i].op = "credit" /\ hist[i].account_id \in AccountIds

\* C22: a credit of an existing account succeeds whatever the account's status,
\* daily limit, debits of the day and balance; it raises the current balance by
\* exactly the amount, appends exactly one refund_credit entry of that amount,
\* and leaves the account's daily debit total as it was.
C22_CreditAlwaysSucceeds ==
    \A i \in 1..Len(hist) :
       CreditOfExisting(i) =>
          LET a == hist[i].account_id
              n == hist[i].ledger_before
          IN /\ hist[i].success
             /\ AccountsAfter(i)[a].current_balance
                   = hist[i].accounts_before[a].current_balance + hist[i].amount
             /\ LedgerAfter(i) = n + 1
             /\ ledger[n + 1].account_id = a
             /\ ledger[n + 1].transaction_type = "refund_credit"
             /\ ledger[n + 1].amount = hist[i].amount
             /\ _get_daily_debit_total(SubSeq(ledger, 1, n + 1), a)
                   = _get_daily_debit_total(SubSeq(ledger, 1, n), a)

\* A credit of a frozen account whose debits of the day have used up its daily
\* limit and whose effective balance is zero.
C22_Witness ==
    \E i \in 1..Len(hist) :
       /\ CreditOfExisting(i)
       /\ hist[i].success
       /\ LET a == hist[i].account_id
              b == hist[i].accounts_before[a]
          IN /\ b.status = "frozen"
             /\ effective_balance(b) = 0
             /\ _get_daily_debit_total(SubSeq(ledger, 1, hist[i].ledger_before), a) = b.daily_limit

SelectCalls == {i \in 1..Len(hist) : hist[i].op = "select"}

\* The rows of the directory that may acquire in the currency.
Candidates(currency) ==
    {i \in 1..Len(banks) : /\ banks[i].is_active
                           /\ banks[i].bank_type \in {"acquirer", "dual"}
                           /\ currency \in banks[i].supported_currencies}

\* C23: select_optimal_acquirer returns none exactly when no active bank of type
\* acquirer or dual supports the currency; otherwise it returns such a bank
\* whose score for the amount is at least the score of every other candidate.
C23_SelectsBestCandidate ==
    \A c \in SelectCalls :
       LET cands == Candidates(hist[c].currency) IN
       /\ hist[c].selected = Null <=> cands = {}
       /\ cands # {} =>
             \E i \in cands :
                /\ banks[i].bank_code = hist[c].selected
                /\ \A j \in cands :
                      _calculate_acquirer_score(banks[i], hist[c].amount)
                         >= _calculate_acquirer_score(banks[j], hist[c].amount)

\* The second of two candidates is selected, over an active bank of type issuer
\* elsewhere in the directory.
C23_Witness ==
    \E c \in SelectCalls :
       /\ Cardinality(Candidates(hist[c].currency)) = 2
       /\ hist[c].selected = "ACQB"
       /\ _calculate_acquirer_score(banks[3], hist[c].amount)
             > _calculate_acquirer_score(banks[2], hist[c].amount)

\* Scored pair x is the scored pair y with the one field raised.
Raised(x, y, field) ==
    /\ x.acquirer[field] > y.acquirer[field]
    /\ \A f \in {"per_transaction_fee", "percentage_fee", "base_response_time_ms",
                 "success_rate"} \ {field} : x.acquirer[f] = y.acquirer[f]

\* C24: with the other factors and the amount fixed, raising the
\* per-transaction fee, the percentage fee or the base latency of an acquirer
\* never raises its score, and raising its success rate never lowers it.
C24_ScoreMonotone ==
    \A c \in SelectCalls :
       \A i, j \in 1..Len(hist[c].scored) :
          LET x == hist[c].scored[i]
              y == hist[c].scored[j]
          IN /\ Raised(x, y, "per_transaction_fee") => x.score <= y.score
             /\ Raised(x, y, "percentage_fee") => x.score <= y.score
             /\ Raised(x, y, "base_response_time_ms") => x.score <= y.score
             /\ Raised(x, y, "success_rate") => x.score >= y.score

\* Two scored acquirers differ in latency alone and the slower one scores less.
C24_Witness ==
    \E c \in SelectCalls :
       \E i, j \in 1..Len(hist[c].scored) :
          /\ Raised(hist[c].scored[i], hist[c].scored[j], "base_response_time_ms")
          /\ hist[c].scored[i].score < hist[c].scored[j].score

LookupCalls == {i \in 1..Len(hist) : hist[i].op = "lookup"}

\* The active merchant accounts of the merchant in the currency.
ActiveAccounts(merchant_id, currency) ==
    {r \in 1..Len(merchants) : /\ merchants[r].merchant_id = merchant_id
                               /\ merchants[r].currency = currency
                               /\ merchants[r].status = "active"}

\* C25: get_merchant_account returns the active account of the merchant in the
\* currency at the preferred acquirer when there is one; otherwise an active
\* account of the merchant in the currency at any acquirer when there is one;
\* otherwise none.  It never returns an account that is not active, of another
\* merchant or in another currency.
C25_MerchantLookup ==
    \A c \in LookupCalls :
       LET any == ActiveAccounts(hist[c].merchant_id, hist[c].currency)
           exact == {r \in any : merchants[r].acquirer_bank_code = hist[c].preferred_acquirer}
       IN /\ exact # {} => hist[c].row \in exact
          /\ (exact = {} /\ any # {}) => hist[c].row \in any
          /\ any = {} => hist[c].row = 0
          /\ hist[c].row # 0 => hist[c].row \in any

\* The account at the preferred acquirer is closed and the lookup falls back to
\* the merchant's account at the other acquirer.
C25_Witness ==
    \E c \in LookupCalls :
       /\ hist[c].preferred_acquirer = "ACQA"
       /\ merchants[1].merchant_id = hist[c].merchant_id
       /\ merchants[1].currency = hist[c].currency
       /\ merchants[1].status = "closed"
       /\ hist[c].row = 2

SettleCalls == {i \in 1..Len(hist) : hist[i].op = "settle"}

\* The merchant row a settlement call works on (0: none).
SettledRow(c) ==
    get_merchant_account(hist[c].merchants_before, hist[c].merchant_id, hist[c].currency,
                         hist[c].acquirer_bank_code)

\* What an approved settlement call added to the balance of its merchant row,
\* in cents.
Credited(c) ==
    merchants[SettledRow(c)].current_balance
       - hist[c].merchants_before[SettledRow(c)].current_balance

\* C26: the fee of a settlement is per_transaction_fee + amount * percentage_fee
\* / 100 and the net amount is amount - fee, both exactly, and an approved
\* settlement raises the merchant's balance by exactly the net amount.
C26_NetCreditedExactly ==
    \A c \in SettleCalls :
       hist[c].success =>
          LET bank_config == get_bank_configuration(banks, hist[c].acquirer_bank_code) IN
          /\ hist[c].fee_info.total_fee
                = bank_config.per_transaction_fee * FeeScale
                     + hist[c].amount * bank_config.percentage_fee
          /\ hist[c].fee_info.net_amount = hist[c].amount * FeeScale - hist[c].fee_info.total_fee
          /\ Credited(c) * FeeScale = hist[c].fee_info.net_amount

\* The merchant rows a settlement call changed.
ChangedRows(c) ==
    {r \in 1..Len(merchants) : merchants[r] # hist[c].merchants_before[r]}

\* C27: a settlement changes a merchant account only when it is approved: every
\* declined settlement (codes 96, 03, 61, 91) leaves every merchant account as
\* it was, and an approved one (code 00) changes exactly one merchant account,
\* the one it settles into, and of that one the balance and the update stamp.
C27_SettleFrame ==
    \A c \in SettleCalls :
       /\ ~hist[c].success => ChangedRows(c) = {}
       /\ hist[c].success =>
             /\ hist[c].response_code = acquirer_response_codes.approved
             /\ SettledRow(c) # 0
             /\ ChangedRows(c) = {SettledRow(c)}
             /\ merchants[SettledRow(c)]
                   = [hist[c].merchants_before[SettledRow(c)] EXCEPT
                         !.current_balance = merchants[SettledRow(c)].current_balance,
                         !.updated_at = merchants[SettledRow(c)].updated_at]

\* Both merchant accounts could take the settlement; it is approved and the
\* one at the acquirer named in the call is credited.
C27_Witness ==
    \E c \in SettleCalls :
       /\ \A r \in 1..Len(merchants) :
             /\ merchants[r].merchant_id = hist[c].merchant_id
             /\ merchants[r].currency = hist[c].currency
             /\ merchants[r].status = "active"
       /\ hist[c].success
       /\ hist[c].acquirer_bank_code = "ACQB"
       /\ Credited(c) > 0

\* The amounts the approved settlement calls before call c settled into the
\* merchant row of call c.
SettledBefore(c) ==
    LET earlier == {b \in SettleCalls : b < c /\ hist[b].success /\ SettledRow(b) = SettledRow(c)}
    IN SetSum([b \in earlier |-> hist[b].amount], earlier)

\* Call c found the acquirer's configuration and a merchant account, and so
\* came to the daily volume check.
ReachedVolumeCheck(c) ==
    /\ get_bank_configuration(banks, hist[c].acquirer_bank_code) # NoBank
    /\ SettledRow(c) # 0

\* C28: a settlement is declined with code 61 exactly when the amounts already
\* settled into the merchant account that day plus its own amount exceed the
\* account's daily volume limit, so that the day's settlements never exceed
\* the limit.
C28_VolumeLimitDecides ==
    \A c \in SettleCalls :
       ReachedVolumeCheck(c) =>
          LET limit == hist[c].merchants_before[SettledRow(c)].daily_volume_limit IN
          /\ hist[c].response_code = acquirer_response_codes.merchant_limit_exceeded
                <=> SettledBefore(c) + hist[c].amount > limit
          /\ hist[c].success => SettledBefore(c) + hist[c].amount <= limit

\* C29: every approved settlement credits a net amount >= 0: it never lowers
\* the merchant's balance, whatever the amount and the fees.
C29_NetNeverNegative ==
    \A c \in SettleCalls :
       hist[c].success => hist[c].fee_info.net_amount >= 0 /\ Credited(c) >= 0

StageCalls == {i \in 1..Len(hist) : hist[i].op \in {"authorize", "settle"}}

\* C30: every result of authorize_transaction and of process_settlement carries
\* a response code of 00, 03, 14, 51, 59, 61, 68, 91, 96, and its success flag
\* is true exactly when the code is 00.
C30_ClosedResponseCodes ==
    \A c \in StageCalls :
       /\ hist[c].response_code \in {"00", "03", "14", "51", "59", "61", "68", "91", "96"}
       /\ hist[c].success \in BOOLEAN
       /\ hist[c].success <=> hist[c].response_code = "00"

\* A settlement called for a merchant without an account in the currency is
\* declined with code 03.
C30_Witness ==
    \E c \in StageCalls :
       /\ hist[c].op = "settle"
       /\ hist[c].response_code = "03"
       /\ ~hist[c].success

\* C31: every result the coordinator returns, on every path, holds a success
\* flag, a response code and, when it is not a success, a decline reason.
C31_ResultHasFlagCodeReason ==
    \A p \in PaymentIds :
       Done(p) =>
          /\ att[p].result.success \in BOOLEAN
          /\ att[p].result.response_code # Absent
          /\ ~att[p].result.success => att[p].result.error # Null

\* C33: in an attempt that runs alone, no other operation touching the customer
\* account, the capture that follows an approved authorization and an approved
\* settlement succeeds: the attempt never ends with the merchant credited and
\* the customer not debited.
C33_SoloCaptureSucceeds ==
    \A p \in PaymentIds :
       (Done(p) /\ att[p].acquirer_result.success) =>
          /\ att[p].calls = <<"authorize", "settle", "capture">>
          /\ att[p].result.success
          /\ \E i \in PaymentEntries(p) : ledger[i].amount = att[p].payment_data.amount

\* An attempt alone on an account with earlier debits that day, whose balance
\* with overdraft and whose daily limit the purchase uses up entirely, captured.
C33_Witness ==
    \E p \in PaymentIds :
       /\ Done(p) /\ att[p].acquirer_result.success
       /\ att[p].result.success
       /\ LET a == att[p].payment_data.bank_account_id IN
          /\ Len(ledger) = 2
          /\ accounts[a].overdraft_limit > 0
          /\ effective_balance(accounts[a]) = 0
          /\ _get_daily_debit_total(ledger, a) = accounts[a].daily_limit

\* C34: the merchant account credited by a successful settlement is held at the
\* acquirer whose configuration the settlement used, whose code the attempt's
\* NetworkTransaction stores and the caller is given.
C34_CreditedAtReportedAcquirer ==
    \A p \in PaymentIds :
       (Done(p) /\ att[p].acquirer_result.success) =>
          /\ merchants[CreditedRow(p)].acquirer_bank_code = att[p].acquirer_bank_code
          /\ nt[p].acquirer_bank_code = att[p].acquirer_bank_code
          /\ att[p].result.acquirer_bank = att[p].acquirer_bank_code

\* C35: once an attempt whose settlement credited the merchant has returned,
\* its NetworkTransaction shows acquirer_status settled.
C35_CreditedMeansSettledStatus ==
    \A p \in PaymentIds :
       (Done(p) /\ att[p].acquirer_result.success) => nt[p].acquirer_status = "settled"

\* The net amounts of the approved settlements the workers made into merchant
\* row r.
WorkersSettledInto(r) ==
    SetSum([w \in Workers |->
              IF dw[w].pc = "done" /\ dw[w].result.success /\ dw[w].account.id = r
              THEN dw[w].account.fee_info.net_amount ELSE 0],
           Workers)

\* C37: when two settlements into the same merchant account run concurrently
\* and both are approved, the merchant's balance ends at its initial balance, 0,
\* plus both net amounts, under every interleaving.
C37_ConcurrentSettlementsBothCredited ==
    (\A w \in Workers : dw[w].pc = "done") =>
       \A r \in 1..Len(merchants) :
          merchants[r].current_balance * FeeScale = WorkersSettledInto(r)

\* C38: once update_account_status has set an account to frozen, suspended or
\* closed, no authorization on it is approved and no debit on it succeeds while
\* it stays non-active, so its balance does not decrease; the status change
\* itself appends one zero-amount ledger entry and leaves the balance unchanged.
C38_NonActiveAccountIsNotCharged ==
    [][/\ \A p \in PaymentIds :
             (att[p].pc = "authorize" /\ att'[p].pc = "settle") =>
                accounts[att[p].payment_data.bank_account_id].status = "active"
       /\ \A id \in AccountIds :
             /\ accounts[id].status # "active" /\ accounts'[id].status # "active" =>
                   accounts'[id].current_balance >= accounts[id].current_balance
             /\ accounts'[id].current_balance < accounts[id].current_balance =>
                   accounts[id].status = "active"
             /\ accounts'[id].status # accounts[id].status =>
                   /\ accounts'[id].current_balance = accounts[id].current_balance
                   /\ Len(ledger') = Len(ledger) + 1
                   /\ ledger'[Len(ledger')].account_id = id
                   /\ ledger'[Len(ledger')].amount = 0
      ]_vars

\* C36: an attempt that ends in success has debited a customer account whose
\* currency is the purchase currency, which is also the currency of the
\* merchant account credited: no amount moves between accounts of different
\* currencies.
C36_DebitedCurrencyIsPurchaseCurrency ==
    \A p \in PaymentIds :
       (Done(p) /\ att[p].result.success) =>
          /\ accounts[att[p].payment_data.bank_account_id].currency =
                att[p].payment_data.currency
          /\ merchants[CreditedRow(p)].currency =
                accounts[att[p].payment_data.bank_account_id].currency

\* The charge Transactions recorded for payment p.
Charges(p) ==
    {i \in 1..Len(transactions) :
        transactions[i].payment_id = p /\ transactions[i].transaction_type = "charge"}

\* The response returned last, when it answers a request of the given kind.
LastResponse(op) == IF hist # <<>> /\ hist[1].op = op THEN {hist[1]} ELSE {}

\* C32: processing a pending payment returns a successful response whose
\* payment status is completed or failed, never pending or processing, and
\* from then on the payment has at least one charge Transaction.
C32_ProcessedPaymentIsCompletedOrFailed ==
    /\ \A r \in LastResponse("process") :
          r.status_before = "pending" =>
             /\ r.success
             /\ r.status \in {"completed", "failed"}
             /\ payments[r.payment_id].status = r.status
    /\ \A p \in PaymentIds :
          payments[p].status \notin {"pending", "processing"} => Charges(p) # {}

C32_Witness ==
    \E r \in LastResponse("process") :
       /\ r.success
       /\ r.status = "failed"
       /\ payments[r.payment_id].bank_account_id # Absent
       /\ att[r.payment_id].calls = <<"authorize", "settle">>
       /\ Charges(r.payment_id) # {}

C40_RefundsWithinPayment ==
    /\ \A p \in PaymentIds :
          SumSeq([i \in 1..Len(refunds) |->
                    IF refunds[i].payment_id = p THEN refunds[i].amount ELSE 0],
                 Len(refunds)) <= payments[p].amount
    /\ \A r \in LastResponse("refund") : r.success => r.status_before = "completed"
    /\ \A i \in 1..Len(refunds) :
          payments[refunds[i].payment_id].status \in {"refunded", "partial_refunded"}

C40_Witness ==
    \E r \in LastResponse("refund") :
       /\ ~r.success
       /\ r.status_before = "partial_refunded"
       /\ Len(refunds) = 1
       /\ refunds[1].amount < payments[r.payment_id].amount

====
